---- MODULE Spec2Model ----
(***************************************************************************)
(* Verification model of the R4 Conecta banking gateway:                   *)
(*   - db/connector.py      pooled stored-procedure executor               *)
(*   - db/repository.py     guardar_transaccion_sp                         *)
(*   - services/r4_services.py  procesar_notificacion_pago                 *)
(*   - core/auth.py, core/config.py  per-endpoint authentication           *)
(*   - controllers/endpoints.py, routers/bancos.py  route wiring           *)
(***************************************************************************)
EXTENDS Integers, Sequences, FiniteSets, TLC

VARIABLES connection_pool, poolsCreated, checkedOut, sess, notifs, persistedBy,
          pc, call, ex, ret, resp, ev,
          req, rstage, rstatus, rdetail, rlog,
          svc,
          BANK_CONFIG, ALIAS_INDEX, registros, lookup

execVars == <<connection_pool, poolsCreated, checkedOut, sess, notifs, persistedBy,
              pc, call, ex, ret, resp, ev>>
reqVars == <<req, rstage, rstatus, rdetail, rlog>>
svcVars == <<svc>>
regVars == <<BANK_CONFIG, ALIAS_INDEX, registros, lookup>>
vars == <<connection_pool, poolsCreated, checkedOut, sess, notifs, persistedBy,
          pc, call, ex, ret, resp, ev, req, rstage, rstatus, rdetail, rlog,
          svc, BANK_CONFIG, ALIAS_INDEX, registros, lookup>>

(***************************************************************************)
(* Bounds of the model                                                     *)
(***************************************************************************)
NumTasks == 2
Tasks == 1..NumTasks
\* calls of the health probe or of the direct query that one task makes
MaxLlamadas == 2

(***************************************************************************)
(* Python values: None, int and str, kept apart by a tag                   *)
(***************************************************************************)
None == [t |-> "none", i |-> 0, s |-> ""]
PyInt(n) == [t |-> "int", i |-> n, s |-> ""]
PyStr(x) == [t |-> "str", i |-> 0, s |-> x]
EmptyDict == [k \in {} |-> None]
DictGet(d, k, default) == IF k \in DOMAIN d THEN d[k] ELSE default

(***************************************************************************)
(* core/config.py                                                          *)
(***************************************************************************)
DB_POOL_MIN_SIZE == 1
DB_POOL_MAX_SIZE == 10

(***************************************************************************)
(* The database: stored procedures and what they emit.                     *)
(***************************************************************************)
Referencias == {"ref1", "ref2"}
CodigosRed == {"00", "05"}
MSG_OK == PyStr("Notificacion guardada")
MSG_DUP == PyStr("Referencia duplicada")
MSG_RECH == PyStr("Notificacion rechazada")
RowSet == [desc |-> TRUE, rows |-> <<"fila">>]
StatusOnly == [desc |-> FALSE, rows |-> <<>>]
\* a SELECT that found no row: columns, no rows
EmptySet == [desc |-> TRUE, rows |-> <<>>]

\* sp_guardar_notificacion_r4: the uniqueness check and the insert are one
\* atomic step of the database.  Every outcome says what the table becomes,
\* what the two OUT parameters are set to and which result sets are emitted.
sp_guardar_notificacion_r4(pin, table) ==
    LET ref == pin[8]
        cred == pin[9]
    IN  IF cred # PyStr("00")
          THEN {[table |-> table, out |-> <<MSG_RECH, PyInt(2)>>, sets |-> <<>>, rowcount |-> 0, inserted |-> FALSE]}
          ELSE IF ref \in table
                 THEN {[table |-> table, out |-> <<MSG_DUP, PyInt(0)>>, sets |-> <<>>, rowcount |-> 0, inserted |-> FALSE]}
                 ELSE {[table |-> table \cup {ref}, out |-> <<MSG_OK, PyInt(1)>>, sets |-> <<>>, rowcount |-> 1, inserted |-> TRUE]}

\* sp_consulta_notificacion_r4: read only, emits zero or more result sets.
sp_consulta_notificacion_r4(pin, table) ==
    {[table |-> table, out |-> <<>>, sets |-> s, rowcount |-> 0, inserted |-> FALSE] :
        s \in {<<>>, <<RowSet>>, <<StatusOnly, RowSet>>, <<RowSet, RowSet>>, <<EmptySet>>, <<EmptySet, RowSet>>}}

\* sp_proceso_notificacion_r4: sets both OUT parameters, or leaves them unset.
sp_proceso_notificacion_r4(pin, table) ==
    {[table |-> table, out |-> o, sets |-> s, rowcount |-> 0, inserted |-> FALSE] :
        o \in {<<PyStr("procesado"), PyInt(1)>>, <<None, None>>},
        s \in {<<>>, <<RowSet>>, <<RowSet, StatusOnly, EmptySet>>}}

SPNames == {"sp_guardar_notificacion_r4", "sp_consulta_notificacion_r4", "sp_proceso_notificacion_r4"}

RunProcedure(sp, pin, table) ==
    IF sp = "sp_guardar_notificacion_r4" THEN sp_guardar_notificacion_r4(pin, table)
    ELSE IF sp = "sp_consulta_notificacion_r4" THEN sp_consulta_notificacion_r4(pin, table)
    ELSE sp_proceso_notificacion_r4(pin, table)

(***************************************************************************)
(* Connections.  A pooled connection is <<pool id, slot>>; a connection    *)
(* the caller of the executor owns is <<0, task>>.                         *)
(***************************************************************************)
NoConn == <<0, 0>>
PoolIds == 1..NumTasks
AllConns == ((0..NumTasks) \X (1..NumTasks))
FreeSlots(p) == {k \in 1..DB_POOL_MAX_SIZE : <<p, k>> \notin checkedOut}
MinOf(S) == CHOOSE k \in S : \A j \in S : k <= j

(***************************************************************************)
(* db/repository.py, db/connector.py: the three call descriptors           *)
(***************************************************************************)
NotificaDatos ==
    {[Referencia |-> "ref1", CodigoRed |-> "00"], [Referencia |-> "ref2", CodigoRed |-> "00"],
     [Referencia |-> "ref1", CodigoRed |-> "05"]}

\* the notifications of one payment: the same Referencia, every CodigoRed
MismaReferencia == {datos \in NotificaDatos : datos.Referencia = "ref1"}

guardar_parametros_in(datos) ==
    <<PyStr("J123"), PyStr("0414"), PyStr("0424"), PyStr("pago"), PyStr("0102"),
      PyStr("10.00"), PyStr("2025-11-01"), PyStr(datos.Referencia), PyStr(datos.CodigoRed)>>

guardar_descriptor(datos) ==
    [kind |-> "notifica", sp |-> "sp_guardar_notificacion_r4",
     parametros_in |-> guardar_parametros_in(datos),
     parametros_out |-> <<"p_mensaje", "p_codigo">>, connection |-> NoConn]

consultar_descriptor(ref) ==
    [kind |-> "consulta", sp |-> "sp_consulta_notificacion_r4",
     parametros_in |-> <<PyStr(""), PyStr(""), PyStr(""), PyStr(""), PyStr(""), PyStr(""), PyStr(ref)>>,
     parametros_out |-> <<>>, connection |-> NoConn]

proceso_descriptor(ref) ==
    [kind |-> "proceso", sp |-> "sp_proceso_notificacion_r4",
     parametros_in |-> <<PyStr("0414"), PyStr("0102"), PyStr("10.00"), PyStr("2025-11-01"), PyStr(ref)>>,
     parametros_out |-> <<"p_mensaje", "p_procesado">>, connection |-> NoConn]

NoCall == [kind |-> "none", sp |-> "", parametros_in |-> <<>>, parametros_out |-> <<>>,
           connection |-> NoConn]

ExInit == [own_conn |-> FALSE, pool |-> 0, connection |-> NoConn, cursor |-> FALSE,
           sets |-> <<>>, emitted |-> <<>>, assigned |-> <<>>, rowcount |-> 0, resultados |-> <<>>, filas_afectadas |-> 0,
           valores_out |-> EmptyDict]

NoRet == [exito |-> FALSE, sp |-> "", resultados |-> <<>>, parametros_out |-> EmptyDict,
          filas_afectadas |-> 0, error |-> None, returned |-> FALSE]
NoResp == [answered |-> FALSE, abono |-> FALSE, mensaje |-> None, codigo |-> None]

(***************************************************************************)
(* db/connector.py: ejecutar_sp_generico, one action per suspension point  *)
(***************************************************************************)
RECURSIVE Capture(_), DrainLoop(_), DrainLoop_first(_)
\* The drain loop: a set is captured only when the cursor reports columns.
Capture(s) ==
    IF s = <<>> THEN <<>>
    ELSE (IF Head(s).desc THEN <<Head(s).rows>> ELSE <<>>) \o Capture(Tail(s))

\* a loop that stops at the first set without columns
DrainLoop_first(s) ==
    IF s = <<>> THEN [resultados |-> <<>>, pending |-> <<>>]
    ELSE IF Head(s).desc
      THEN LET rest == DrainLoop_first(Tail(s))
           IN  [resultados |-> <<Head(s).rows>> \o rest.resultados, pending |-> rest.pending]
      ELSE [resultados |-> <<>>, pending |-> Tail(s)]

\* the current set, then "while await cursor.nextset()": every set is passed,
\* one with columns is fetched and appended; pending is what the cursor has
\* left when the loop ends
DrainLoop(s) ==
    IF s = <<>> THEN [resultados |-> <<>>, pending |-> <<>>]
    ELSE LET rest == DrainLoop(Tail(s))
         IN  [resultados |-> (IF Head(s).desc THEN <<Head(s).rows>> ELSE <<>>) \o rest.resultados,
              pending |-> rest.pending]

\* callproc: every argument becomes a session variable @_<sp>_<i>, OUT ones as NULL
CallprocArgs(c) == c.parametros_in \o [i \in 1..Len(c.parametros_out) |-> None]

\* after CALL the OUT positions hold what the procedure assigned
SessionAfterCall(c, out) == c.parametros_in \o out

\* the variables numbered from the last input instead of after it
OutRow_offbyone(c, sessvars) ==
    LET base_idx == Len(c.parametros_in) - 1
    IN  [i \in 1..Len(c.parametros_out) |-> sessvars[base_idx + i]]

\* SELECT @_<sp>_<base_idx + i> AS <nombre>; the row is mapped back by position
OutRow(c, sessvars) ==
    LET base_idx == Len(c.parametros_in)
    IN  [i \in 1..Len(c.parametros_out) |-> sessvars[base_idx + i]]

ValoresOut(c, out_row) ==
    [n \in {c.parametros_out[i] : i \in 1..Len(c.parametros_out)} |->
        out_row[CHOOSE i \in 1..Len(c.parametros_out) :
                    /\ c.parametros_out[i] = n
                    /\ \A j \in 1..Len(c.parametros_out) : c.parametros_out[j] = n => j <= i]]

EnvelopeOk(c, e, valores_out) ==
    [exito |-> TRUE, sp |-> c.sp, resultados |-> e.resultados,
     parametros_out |-> valores_out, filas_afectadas |-> e.filas_afectadas,
     error |-> None, returned |-> FALSE]

\* a failure envelope that hands over the result sets read so far
EnvelopeError_partial(c, e) ==
    [exito |-> FALSE, sp |-> c.sp, resultados |-> e.resultados,
     parametros_out |-> EmptyDict, filas_afectadas |-> 0,
     error |-> PyStr("error"), returned |-> FALSE]

\* str(e): some text, whatever the exception was
EnvelopeError(c, e) ==
    [exito |-> FALSE, sp |-> c.sp, resultados |-> <<>>,
     parametros_out |-> EmptyDict, filas_afectadas |-> 0,
     error |-> PyStr("error"), returned |-> FALSE]

Log(t, what) == ev' = [ev EXCEPT ![t] = Append(@, what)]

\* guardar_transaccion_sp: the envelope renamed for the service
guardar_transaccion_sp(resultado) ==
    [resultsets |-> resultado.resultados,
     out_params |-> resultado.parametros_out,
     filas_afectadas |-> resultado.filas_afectadas,
     exito |-> resultado.exito,
     error |-> resultado.error]

\* a truthiness test of the code instead of the comparison with 1
Abono_truthy(codigo_sp) == codigo_sp # PyInt(0)

\* abono = codigo_sp == 1
Abono(codigo_sp) == codigo_sp = PyInt(1)

\* the code defaulting to 1 when the envelope carries no p_codigo
procesar_notificacion_pago_default_one(resultado) ==
    LET out_params == resultado.out_params
        mensaje_sp == DictGet(out_params, "p_mensaje", PyStr(""))
        codigo_sp == DictGet(out_params, "p_codigo", PyInt(1))
    IN  [answered |-> TRUE, abono |-> Abono(codigo_sp), mensaje |-> mensaje_sp, codigo |-> codigo_sp]

procesar_notificacion_pago(resultado) ==
    LET out_params == resultado.out_params
        mensaje_sp == DictGet(out_params, "p_mensaje", PyStr(""))
        codigo_sp == DictGet(out_params, "p_codigo", PyInt(0))
    IN  [answered |-> TRUE, abono |-> Abono(codigo_sp), mensaje |-> mensaje_sp, codigo |-> codigo_sp]

\* a finally block that does not look at own_conn
ReleaseStep_any(e) ==
    IF e.connection # NoConn
      THEN IF e.pool # 0 THEN <<"release">> ELSE <<"close_connection">>
      ELSE <<>>

\* what the finally block does with the connection
ReleaseStep(e) ==
    IF e.own_conn /\ e.connection # NoConn
      THEN IF e.pool # 0 THEN <<"release">> ELSE <<"close_connection">>
      ELSE <<>>

\* finally: close the cursor if there is one, release the connection if it is
\* ours; then the envelope reaches the caller, and for a notification
\* guardar_transaccion_sp and procesar_notificacion_pago finish without awaiting
Return(t, envelope) ==
    /\ LET steps == (IF ex[t].cursor THEN <<"close_cursor">> ELSE <<>>) \o ReleaseStep(ex[t])
       IN  /\ ev' = [ev EXCEPT ![t] = @ \o steps]
           /\ checkedOut' = IF \E i \in 1..Len(steps) : steps[i] = "release"
                              THEN checkedOut \ {<<ex[t].pool, ex[t].connection[2]>>}
                              ELSE checkedOut
    /\ ret' = [ret EXCEPT ![t] = [envelope EXCEPT !.returned = TRUE]]
    /\ resp' = IF call[t].kind = "notifica"
                 THEN [resp EXCEPT ![t] = procesar_notificacion_pago(guardar_transaccion_sp(envelope))]
                 ELSE resp
    /\ ex' = [ex EXCEPT ![t] = [ExInit EXCEPT !.emitted = ex[t].emitted, !.assigned = ex[t].assigned]]
    /\ pc' = [pc EXCEPT ![t] = "done"]

\* the except branch builds the failure envelope; with a cursor open the
\* finally block awaits cursor.close(), without one it runs to the return
RaiseWith(t, e) ==
    IF e.cursor
      THEN /\ ret' = [ret EXCEPT ![t] = EnvelopeError(call[t], e)]
           /\ pc' = [pc EXCEPT ![t] = "finally"]
           /\ ex' = [ex EXCEPT ![t] = e]
           /\ UNCHANGED <<checkedOut, resp, ev>>
      ELSE Return(t, EnvelopeError(call[t], e))

Raise(t) == RaiseWith(t, ex[t])

\* the caller runs into ejecutar_sp_generico without suspending: with a
\* connection of the caller's the first await is connection.cursor(); without
\* one get_connection_pool() returns the existing pool at once (next await:
\* pool.acquire()) or awaits aiomysql.create_pool
Begin(t, c, ext) ==
    /\ pc[t] = "idle"
    /\ call' = [call EXCEPT ![t] = [c EXCEPT !.connection = IF ext THEN <<0, t>> ELSE NoConn]]
    /\ ex' = [ex EXCEPT ![t] = [ExInit EXCEPT !.own_conn = ~ext,
                                              !.connection = IF ext THEN <<0, t>> ELSE NoConn,
                                              !.pool = IF ext THEN 0 ELSE connection_pool]]
    /\ pc' = [pc EXCEPT ![t] = IF ext THEN "cursor"
                               ELSE IF connection_pool # 0 THEN "acquire" ELSE "create_pool"]
    /\ UNCHANGED <<connection_pool, poolsCreated, checkedOut, sess, notifs, persistedBy, ret, resp, ev>>

\* the initial validation as it would be with the check on CodigoRed in force
rechaza_codigo_red_00(datos) == datos.CodigoRed # "00"

\* procesar_notificacion_pago, "PASO 1": codigo_red is read and the check on
\* it is commented out, so no payload is turned away before the procedure
rechaza_codigo_red(datos) == FALSE

\* R4Services.procesar_notificacion_pago -> repository.guardar_transaccion_sp
StartNotifica(t, entradas) ==
    /\ \E datos \in entradas :
          IF rechaza_codigo_red(datos)
            THEN /\ pc[t] = "idle"
                 /\ call' = [call EXCEPT ![t] = guardar_descriptor(datos)]
                 /\ resp' = [resp EXCEPT ![t] = [answered |-> TRUE, abono |-> FALSE,
                                                  mensaje |-> None, codigo |-> None]]
                 /\ pc' = [pc EXCEPT ![t] = "done"]
                 /\ UNCHANGED <<connection_pool, poolsCreated, checkedOut, sess, notifs, persistedBy,
                                ex, ret, ev>>
            ELSE Begin(t, guardar_descriptor(datos), FALSE)
    /\ UNCHANGED <<reqVars, svcVars, regVars>>

\* consultar_notificacion_por_referencia: parametros_out = ()
StartConsulta(t) ==
    /\ \E ext \in BOOLEAN : Begin(t, consultar_descriptor("ref1"), ext)
    /\ UNCHANGED <<reqVars, svcVars, regVars>>

\* proceso_comprobacion_por_referencia: parametros_out = (p_mensaje, p_procesado)
StartProceso(t) ==
    /\ \E ext \in BOOLEAN : Begin(t, proceso_descriptor("ref1"), ext)
    /\ UNCHANGED <<reqVars, svcVars, regVars>>

\* await aiomysql.create_pool(...) returns: the global is assigned
CreatePoolOk(t) ==
    /\ pc[t] = "create_pool"
    /\ poolsCreated < NumTasks
    /\ poolsCreated' = poolsCreated + 1
    /\ connection_pool' = poolsCreated + 1
    /\ ex' = [ex EXCEPT ![t].pool = poolsCreated + 1]
    /\ pc' = [pc EXCEPT ![t] = "acquire"]
    /\ UNCHANGED <<checkedOut, sess, notifs, persistedBy, call, ret, resp, ev>>
    /\ UNCHANGED <<reqVars, svcVars, regVars>>

CreatePoolFail(t) ==
    /\ pc[t] = "create_pool"
    /\ Raise(t)
    /\ UNCHANGED <<connection_pool, poolsCreated, sess, notifs, persistedBy, call>>
    /\ UNCHANGED <<reqVars, svcVars, regVars>>

AcquireOk(t) ==
    /\ pc[t] = "acquire"
    /\ FreeSlots(ex[t].pool) # {}
    /\ LET c == <<ex[t].pool, MinOf(FreeSlots(ex[t].pool))>>
       IN  /\ checkedOut' = checkedOut \cup {c}
           /\ ex' = [ex EXCEPT ![t].connection = c]
    /\ pc' = [pc EXCEPT ![t] = "cursor"]
    /\ Log(t, "acquire")
    /\ UNCHANGED <<connection_pool, poolsCreated, sess, notifs, persistedBy, call, ret, resp>>
    /\ UNCHANGED <<reqVars, svcVars, regVars>>

AcquireFail(t) ==
    /\ pc[t] = "acquire"
    /\ Raise(t)
    /\ UNCHANGED <<connection_pool, poolsCreated, sess, notifs, persistedBy, call>>
    /\ UNCHANGED <<reqVars, svcVars, regVars>>

CursorOk(t) ==
    /\ pc[t] = "cursor"
    /\ ex' = [ex EXCEPT ![t].cursor = TRUE]
    /\ pc' = [pc EXCEPT ![t] = "call"]
    /\ Log(t, "cursor")
    /\ UNCHANGED <<connection_pool, poolsCreated, checkedOut, sess, notifs, persistedBy, call, ret, resp>>
    /\ UNCHANGED <<reqVars, svcVars, regVars>>

CursorFail(t) ==
    /\ pc[t] = "cursor"
    /\ Raise(t)
    /\ UNCHANGED <<connection_pool, poolsCreated, sess, notifs, persistedBy, call>>
    /\ UNCHANGED <<reqVars, svcVars, regVars>>

\* what the database does when the CALL statement reaches it
Executed(t, o) ==
    LET c == call[t]
        conn == ex[t].connection
    IN  /\ notifs' = o.table
        /\ persistedBy' = IF o.inserted
                            THEN [persistedBy EXCEPT ![c.parametros_in[8].s] = t]
                            ELSE persistedBy
        /\ sess' = IF Len(c.parametros_out) > 0
                     THEN [sess EXCEPT ![conn][c.sp] = SessionAfterCall(c, o.out)]
                     ELSE sess

\* cursor.execute("CALL ...") or cursor.callproc(...) returns
CallOk(t) ==
    /\ pc[t] = "call"
    /\ \E o \in RunProcedure(call[t].sp, call[t].parametros_in, notifs) :
          /\ Executed(t, o)
          /\ ex' = [ex EXCEPT ![t].sets = o.sets \o <<StatusOnly>>, ![t].emitted = o.sets,
                               ![t].assigned = o.out,
                               ![t].rowcount = o.rowcount]
    /\ pc' = [pc EXCEPT ![t] = "drain"]
    /\ UNCHANGED <<connection_pool, poolsCreated, checkedOut, call, ret, resp, ev>>
    /\ UNCHANGED <<reqVars, svcVars, regVars>>

\* the statement fails before the procedure ran
CallFailBefore(t) ==
    /\ pc[t] = "call"
    /\ Raise(t)
    /\ UNCHANGED <<connection_pool, poolsCreated, sess, notifs, persistedBy, call>>
    /\ UNCHANGED <<reqVars, svcVars, regVars>>

\* the procedure ran, the reply was lost
CallFailAfter(t) ==
    /\ pc[t] = "call"
    /\ \E o \in RunProcedure(call[t].sp, call[t].parametros_in, notifs) : Executed(t, o)
    /\ Raise(t)
    /\ UNCHANGED <<connection_pool, poolsCreated, call>>
    /\ UNCHANGED <<reqVars, svcVars, regVars>>

\* fetchall / nextset loop and rowcount; without OUT names the envelope follows
DrainOk(t) ==
    /\ pc[t] = "drain"
    /\ LET e == [ex[t] EXCEPT !.resultados = DrainLoop(ex[t].sets).resultados,
                              !.sets = DrainLoop(ex[t].sets).pending,
                              !.filas_afectadas = ex[t].rowcount]
       IN  /\ ex' = [ex EXCEPT ![t] = e]
           /\ IF Len(call[t].parametros_out) > 0
                THEN /\ pc' = [pc EXCEPT ![t] = "out"]
                     /\ UNCHANGED ret
                ELSE /\ pc' = [pc EXCEPT ![t] = "finally"]
                     /\ ret' = [ret EXCEPT ![t] = EnvelopeOk(call[t], e, e.valores_out)]
    /\ Log(t, "drain")
    /\ UNCHANGED <<connection_pool, poolsCreated, checkedOut, sess, notifs, persistedBy, call, resp>>
    /\ UNCHANGED <<reqVars, svcVars, regVars>>

\* nextset or fetchall raises something other than ProgrammingError, with k
\* result sets already read
DrainFail(t) ==
    /\ pc[t] = "drain"
    /\ \E k \in 0..Len(ex[t].sets) :
          RaiseWith(t, [ex[t] EXCEPT !.resultados = Capture(SubSeq(ex[t].sets, 1, k))])
    /\ UNCHANGED <<connection_pool, poolsCreated, sess, notifs, persistedBy, call>>
    /\ UNCHANGED <<reqVars, svcVars, regVars>>

\* SELECT of the session variables, fetchone, mapping back to the names
OutSelectOk(t) ==
    /\ pc[t] = "out"
    /\ LET out_row == OutRow(call[t], sess[ex[t].connection][call[t].sp])
           e == [ex[t] EXCEPT !.valores_out = ValoresOut(call[t], out_row)]
       IN  /\ ex' = [ex EXCEPT ![t] = e]
           /\ ret' = [ret EXCEPT ![t] = EnvelopeOk(call[t], e, e.valores_out)]
    /\ pc' = [pc EXCEPT ![t] = "finally"]
    /\ Log(t, "out_select")
    /\ UNCHANGED <<connection_pool, poolsCreated, checkedOut, sess, notifs, persistedBy, call, resp>>
    /\ UNCHANGED <<reqVars, svcVars, regVars>>

OutSelectFail(t) ==
    /\ pc[t] = "out"
    /\ Raise(t)
    /\ UNCHANGED <<connection_pool, poolsCreated, sess, notifs, persistedBy, call>>
    /\ UNCHANGED <<reqVars, svcVars, regVars>>

(***************************************************************************)
(* db/repository.py and services/r4_services.py                            *)
(***************************************************************************)
\* the finally block after an await of cursor.close() was needed
Finally(t) ==
    /\ pc[t] = "finally"
    /\ Return(t, ret[t])
    /\ UNCHANGED <<connection_pool, poolsCreated, sess, notifs, persistedBy, call>>
    /\ UNCHANGED <<reqVars, svcVars, regVars>>

\* the except branch of procesar_notificacion_pago: {"abono": False}
NotificaExcept(t) ==
    /\ pc[t] = "idle"
    /\ resp' = [resp EXCEPT ![t] = [answered |-> TRUE, abono |-> FALSE, mensaje |-> None, codigo |-> None]]
    /\ pc' = [pc EXCEPT ![t] = "done"]
    /\ UNCHANGED <<connection_pool, poolsCreated, checkedOut, sess, notifs, persistedBy, call, ex, ret, ev>>
    /\ UNCHANGED <<reqVars, svcVars, regVars>>

(***************************************************************************)
(* db/connector.py test_connection and the direct query of                 *)
(* db/repository.py consultar_notificacion_por_referencia: the two         *)
(* checkouts outside ejecutar_sp_generico, one action per await            *)
(***************************************************************************)
DirectKinds == {"test_connection", "fallback"}

\* the call is entered; get_connection_pool returns the pool there is, or
\* awaits aiomysql.create_pool
DirectStart(t) ==
    /\ pc[t] = "idle"
    /\ Cardinality({i \in 1..Len(ev[t]) : ev[t][i] = "call"}) < MaxLlamadas
    /\ \E kind \in DirectKinds : call' = [call EXCEPT ![t] = [NoCall EXCEPT !.kind = kind]]
    /\ ex' = [ex EXCEPT ![t] = [ExInit EXCEPT !.pool = connection_pool]]
    /\ pc' = [pc EXCEPT ![t] = IF connection_pool # 0 THEN "d_acquire" ELSE "d_create_pool"]
    /\ Log(t, "call")
    /\ UNCHANGED <<connection_pool, poolsCreated, checkedOut, sess, notifs, persistedBy, ret, resp>>
    /\ UNCHANGED <<reqVars, svcVars, regVars>>

\* "except Exception": test_connection returns False, the fallback passes;
\* neither branch touches the connection
DirectExcept(t) ==
    /\ pc' = [pc EXCEPT ![t] = "idle"]
    /\ ex' = [ex EXCEPT ![t] = ExInit]
    /\ UNCHANGED <<connection_pool, poolsCreated, checkedOut, sess, notifs, persistedBy, call, ret, resp, ev>>
    /\ UNCHANGED <<reqVars, svcVars, regVars>>

DirectCreatePoolOk(t) ==
    /\ pc[t] = "d_create_pool"
    /\ poolsCreated < NumTasks
    /\ poolsCreated' = poolsCreated + 1
    /\ connection_pool' = poolsCreated + 1
    /\ ex' = [ex EXCEPT ![t].pool = poolsCreated + 1]
    /\ pc' = [pc EXCEPT ![t] = "d_acquire"]
    /\ UNCHANGED <<checkedOut, sess, notifs, persistedBy, call, ret, resp, ev>>
    /\ UNCHANGED <<reqVars, svcVars, regVars>>

DirectCreatePoolFail(t) ==
    /\ pc[t] = "d_create_pool"
    /\ DirectExcept(t)

\* pool.acquire() returns a connection
DirectAcquireOk(t) ==
    /\ pc[t] = "d_acquire"
    /\ FreeSlots(ex[t].pool) # {}
    /\ LET c == <<ex[t].pool, MinOf(FreeSlots(ex[t].pool))>>
       IN  /\ checkedOut' = checkedOut \cup {c}
           /\ ex' = [ex EXCEPT ![t].connection = c]
    /\ pc' = [pc EXCEPT ![t] = "d_cursor"]
    /\ Log(t, "acquire")
    /\ UNCHANGED <<connection_pool, poolsCreated, sess, notifs, persistedBy, call, ret, resp>>
    /\ UNCHANGED <<reqVars, svcVars, regVars>>

DirectAcquireFail(t) ==
    /\ pc[t] = "d_acquire"
    /\ DirectExcept(t)

\* connection.cursor() returns
DirectCursorOk(t) ==
    /\ pc[t] = "d_cursor"
    /\ ex' = [ex EXCEPT ![t].cursor = TRUE]
    /\ pc' = [pc EXCEPT ![t] = "d_query"]
    /\ UNCHANGED <<connection_pool, poolsCreated, checkedOut, sess, notifs, persistedBy, call, ret, resp, ev>>
    /\ UNCHANGED <<reqVars, svcVars, regVars>>

\* connection.cursor() raises: in both callers the statement is outside any
\* block that releases
DirectCursorFail(t) ==
    /\ pc[t] = "d_cursor"
    /\ DirectExcept(t)

\* execute and fetch return; cursor.close() is next
DirectQueryOk(t) ==
    /\ pc[t] = "d_query"
    /\ pc' = [pc EXCEPT ![t] = "d_close"]
    /\ UNCHANGED <<connection_pool, poolsCreated, checkedOut, sess, notifs, persistedBy, call, ex, ret, resp, ev>>
    /\ UNCHANGED <<reqVars, svcVars, regVars>>

\* execute or fetch raises: the fallback runs its finally block, the probe
\* goes to its except branch
DirectQueryFail(t) ==
    /\ pc[t] = "d_query"
    /\ IF call[t].kind = "fallback"
         THEN /\ pc' = [pc EXCEPT ![t] = "d_close"]
              /\ UNCHANGED <<connection_pool, poolsCreated, checkedOut, sess, notifs, persistedBy, call,
                             ex, ret, resp, ev>>
              /\ UNCHANGED <<reqVars, svcVars, regVars>>
         ELSE DirectExcept(t)

\* await cursor.close() returns, then pool.release(connection)
DirectCloseOk(t) ==
    /\ pc[t] = "d_close"
    /\ checkedOut' = checkedOut \ {ex[t].connection}
    /\ ex' = [ex EXCEPT ![t] = ExInit]
    /\ pc' = [pc EXCEPT ![t] = "idle"]
    /\ Log(t, "release")
    /\ UNCHANGED <<connection_pool, poolsCreated, sess, notifs, persistedBy, call, ret, resp>>
    /\ UNCHANGED <<reqVars, svcVars, regVars>>

\* await cursor.close() raises: the release after it is not reached
DirectCloseFail(t) ==
    /\ pc[t] = "d_close"
    /\ DirectExcept(t)

ExecInit ==
    /\ connection_pool = 0
    /\ poolsCreated = 0
    /\ checkedOut = {}
    /\ sess = [c \in AllConns |-> [n \in SPNames |-> <<>>]]
    /\ notifs = {}
    /\ persistedBy = [r \in Referencias |-> 0]
    /\ pc = [t \in Tasks |-> "idle"]
    /\ call = [t \in Tasks |-> NoCall]
    /\ ex = [t \in Tasks |-> ExInit]
    /\ ret = [t \in Tasks |-> NoRet]
    /\ resp = [t \in Tasks |-> NoResp]
    /\ ev = [t \in Tasks |-> <<>>]

(***************************************************************************)
(* core/config.py: what the process environment makes of the settings      *)
(***************************************************************************)
R4_MERCHANT_ID == "id_comercio"
REQUEST_TIMEOUT == 30
IP_BANCO == "10.0.0.1"
IP_AJENA == "203.0.113.9"
IP_LOCAL == "127.0.0.1"

\* os.getenv("BANCO_IPS_PERMITIDAS", "").split(","), for the values the model uses
SplitComma(raw) ==
    IF raw = "" THEN <<"">>
    ELSE IF raw = "10.0.0.1" THEN <<"10.0.0.1">>
    ELSE <<"10.0.0.1", "10.0.0.2">>

\* a str is true when it is not empty
Truthy(str) == str # ""

BANCO_IPS_PERMITIDAS(env) ==
    SplitComma(env.BANCO_IPS_PERMITIDAS) \o (IF Truthy(env.DEBUG) THEN <<IP_LOCAL>> ELSE <<>>)

get_r4_config(env) ==
    [merchant_id |-> PyStr(R4_MERCHANT_ID),
     secret_key |-> PyStr(R4_MERCHANT_ID),
     timeout |-> PyInt(REQUEST_TIMEOUT),
     allowed_ips |-> BANCO_IPS_PERMITIDAS(env)]

\* dict.get(key): None when the key is not in the dict
ConfigGet(cfg, key) == IF key \in DOMAIN cfg THEN cfg[key] ELSE None

Environments == [BANCO_IPS_PERMITIDAS : {"", "10.0.0.1"}, DEBUG : {"False", "True", ""}]

(***************************************************************************)
(* core/auth.py                                                            *)
(***************************************************************************)
HmacEntry(params) == [params |-> params, separator |-> "", requires_uuid |-> FALSE]
UuidEntry == [params |-> <<>>, separator |-> "", requires_uuid |-> TRUE]

HMAC_CONFIG ==
    [e \in {"MBbcv", "R4pagos", "MBvuelto", "GenerarOtp", "DebitoInmediato", "CreditoInmediato",
            "DomiciliacionCNTA", "DomiciliacionCELE", "ConsultarOperaciones", "CICuentas",
            "MBc2p", "MBanulacionC2P", "VerificoPago", "R4consulta", "R4notifica"} |->
        CASE e = "MBbcv" -> HmacEntry(<<"Fechavalor", "Moneda">>)
          [] e = "R4pagos" -> HmacEntry(<<"monto", "fecha">>)
          [] e = "MBvuelto" -> HmacEntry(<<"TelefonoDestino", "Monto", "Banco", "Cedula">>)
          [] e = "GenerarOtp" -> HmacEntry(<<"Banco", "Monto", "Telefono", "Cedula">>)
          [] e = "DebitoInmediato" -> HmacEntry(<<"Banco", "Cedula", "Telefono", "Monto", "OTP">>)
          [] e = "CreditoInmediato" -> HmacEntry(<<"Banco", "Cedula", "Telefono", "Monto">>)
          [] e = "DomiciliacionCNTA" -> HmacEntry(<<"cuenta">>)
          [] e = "DomiciliacionCELE" -> HmacEntry(<<"telefono">>)
          [] e = "ConsultarOperaciones" -> HmacEntry(<<"id">>)
          [] e = "CICuentas" -> HmacEntry(<<"Cedula", "Cuenta", "Monto">>)
          [] e = "MBc2p" -> HmacEntry(<<"TelefonoDestino", "Monto", "Banco", "Cedula">>)
          [] e = "MBanulacionC2P" -> HmacEntry(<<"Banco">>)
          [] e = "VerificoPago" -> HmacEntry(<<"Referencia">>)
          [] e = "R4consulta" -> UuidEntry
          [] e = "R4notifica" -> UuidEntry]

\* what HMAC_CONFIG.get gives for a name without entry
NoPolicy == [params |-> <<>>, separator |-> "", requires_uuid |-> FALSE, missing |-> TRUE]

\* a lookup that falls back to the policy of another operation
HmacConfigGet_fallback(endpoint) ==
    IF endpoint \in DOMAIN HMAC_CONFIG THEN HMAC_CONFIG[endpoint] ELSE HMAC_CONFIG["VerificoPago"]

\* HMAC_CONFIG.get(endpoint)
HmacConfigGet(endpoint) ==
    IF endpoint \in DOMAIN HMAC_CONFIG THEN HMAC_CONFIG[endpoint] ELSE NoPolicy

\* hexdigest of HMAC-SHA256, taken to be collision free: the digest names its inputs
calcular_hmac_r4(data_string, secret_key) == "hmac[" \o secret_key \o "|" \o data_string \o "]"

\* a call that returned a bool, and a call that raised
Returns(b) == [raised |-> FALSE, value |-> b]
Raises == [raised |-> TRUE, value |-> FALSE]

\* a header value with a character outside ASCII
FirmaNoAscii == "firma-no-ascii"

\* hmac.compare_digest(expected, received): TypeError for a str that is not ASCII
compare_digest(expected, received) ==
    IF received = FirmaNoAscii THEN Raises ELSE Returns(expected = received)

\* the variant that takes the digest of the data under any key
verificar_hmac_r4_anykey(data_string, signature_received, secret_key) ==
    Returns(\E key \in {secret_key, "otra_clave"} :
                calcular_hmac_r4(data_string, key) = signature_received)

\* try: compare_digest(calcular_hmac_r4(...), received); except Exception: False
verificar_hmac_r4(data_string, signature_received, secret_key) ==
    LET comparison == compare_digest(calcular_hmac_r4(data_string, secret_key), signature_received)
    IN  IF comparison.raised THEN Returns(FALSE) ELSE comparison

\* the variant that also takes any well-formed UUID
validar_uuid_wellformed(token, cfg) == token = PyStr("7f1c-uuid") \/ token = ConfigGet(cfg, "uuid")

\* token == get_r4_config().get("uuid")
validar_uuid(token, cfg) == token = ConfigGet(cfg, "uuid")

\* str(value)
PyStrOf(v) ==
    IF v.t = "str" THEN v.s
    ELSE IF v.t = "int" THEN (CASE v.i = 0 -> "0" [] v.i = 1 -> "1" [] v.i = 2 -> "2" [] OTHER -> "9")
    ELSE "None"

RECURSIVE Join(_, _)
\* separator.join(parts)
Join(sep, parts) ==
    IF parts = <<>> THEN ""
    ELSE IF Len(parts) = 1 THEN parts[1]
    ELSE parts[1] \o sep \o Join(sep, Tail(parts))

\* the dependency's payload when the request has no body: None
NoPayload == [sin_cuerpo |-> None]

\* payload.get(param)
PayloadGet(payload, param) == IF param \in DOMAIN payload THEN payload[param] ELSE None

\* the last such position instead of the first
FirstMissing_last(params, payload) ==
    IF \E i \in 1..Len(params) : PayloadGet(payload, params[i]) = None
      THEN CHOOSE i \in 1..Len(params) :
              /\ PayloadGet(payload, params[i]) = None
              /\ \A j \in (i + 1)..Len(params) : PayloadGet(payload, params[j]) # None
      ELSE 0

\* position of the first policy field whose value is None, 0 when all are there
FirstMissing(params, payload) ==
    IF \E i \in 1..Len(params) : PayloadGet(payload, params[i]) = None
      THEN CHOOSE i \in 1..Len(params) :
              /\ PayloadGet(payload, params[i]) = None
              /\ \A j \in 1..(i - 1) : PayloadGet(payload, params[j]) # None
      ELSE 0

AuthResult(status, detail, fields_read, hmac_computed) ==
    [status |-> status, detail |-> detail, fields_read |-> fields_read, hmac_computed |-> hmac_computed]

\* "not authorization": the header is missing or empty
NotAuthorization(authorization) == authorization = None \/ authorization = PyStr("")

\* a data string over the policy fields followed by the other fields of the body
DataString_whole(hmac_config, payload) ==
    LET params == hmac_config.params
    IN  Join(hmac_config.separator, [i \in 1..Len(params) |-> PyStrOf(PayloadGet(payload, params[i]))])
            \o (IF "Extra" \in DOMAIN payload THEN PyStrOf(payload["Extra"]) ELSE "")

\* data_parts.append(str(value)) for each policy field, then separator.join
DataString(hmac_config, payload) ==
    LET params == hmac_config.params
    IN  Join(hmac_config.separator, [i \in 1..Len(params) |-> PyStrOf(PayloadGet(payload, params[i]))])

validar_hmac_generico(endpoint, authorization, payload, cfg) ==
    LET hmac_config == HmacConfigGet(endpoint)
    IN  IF NotAuthorization(authorization)
          THEN AuthResult(401, "Authorization header requerido", <<>>, FALSE)
        ELSE IF hmac_config = NoPolicy
          THEN AuthResult(500, "Error de configuracion de seguridad", <<>>, FALSE)
        ELSE IF hmac_config.requires_uuid
          THEN IF validar_uuid(authorization, cfg)
                 THEN AuthResult(200, "", <<>>, FALSE)
                 ELSE AuthResult(401, "Token Authorization debe ser UUID valido", <<>>, FALSE)
        ELSE IF payload = NoPayload
          THEN AuthResult(401, "Error de autenticacion", <<>>, FALSE)
        ELSE LET params == hmac_config.params
                 m == FirstMissing(params, payload)
             IN  IF m # 0
                   THEN AuthResult(400, "Parametro " \o params[m] \o " requerido para autenticacion",
                                   SubSeq(params, 1, m), FALSE)
                   ELSE LET data_string == DataString(hmac_config, payload)
                            verified == verificar_hmac_r4(data_string, authorization.s, cfg.merchant_id.s)
                        IN  IF verified.raised
                              THEN AuthResult(401, "Error de autenticacion", params, TRUE)
                            ELSE IF verified.value
                              THEN AuthResult(200, "", params, TRUE)
                              ELSE AuthResult(401, "Firma HMAC invalida", params, TRUE)

\* the X-Forwarded-For header as the proxies write it: the chain joined by ", "
HeaderXFF(chain) == Join(", ", chain)

\* headers.get("X-Forwarded-For", headers.get("X-Real-IP", client.host))
ClientIp(r) ==
    IF r.xff # <<>> THEN HeaderXFF(r.xff)
    ELSE IF r.xreal # None THEN r.xreal.s
    ELSE r.socket

InSeq(x, seq) == \E i \in 1..Len(seq) : seq[i] = x

\* ip_whitelist_middleware: TRUE when it returns, FALSE when it raises 401
ip_whitelist_middleware(r, cfg) == InSeq(ClientIp(r), cfg.allowed_ips)

(***************************************************************************)
(* controllers/endpoints.py and routers/bancos.py: one request             *)
(***************************************************************************)
SingleOps == {"MBbcv", "R4consulta", "R4notifica"}
MultiOps == {"MBbcv", "R4consulta", "R4notifica", "VerificoPago"}
DirectOps == {"VerificoPago", "NoSuchOp"}

FieldsOf(op) ==
    IF op \in DOMAIN HMAC_CONFIG /\ ~HMAC_CONFIG[op].requires_uuid
      THEN {HMAC_CONFIG[op].params[i] : i \in 1..Len(HMAC_CONFIG[op].params)}
      ELSE {"Referencia"}

FieldValues == {None, PyStr("a"), PyStr("ab"), PyInt(1)}
Payloads(op) == {NoPayload} \cup UNION {[S -> FieldValues] : S \in SUBSET FieldsOf(op)}

Tokens == {None, PyStr(""), PyStr("7f1c-uuid"),
           PyStr(calcular_hmac_r4("aab", R4_MERCHANT_ID)),
           PyStr(calcular_hmac_r4("a", R4_MERCHANT_ID)),
           PyStr(calcular_hmac_r4("aab", "otra_clave")),
           PyStr(FirmaNoAscii)}

ForwardedChains == {<<>>, <<IP_BANCO>>, <<IP_AJENA>>, <<IP_BANCO, IP_AJENA>>}
RealIps == {None, PyStr(IP_AJENA)}
SocketIps == {IP_BANCO, IP_AJENA, IP_LOCAL}

RoutedOps(route) ==
    IF route = "single" THEN SingleOps ELSE IF route = "multi" THEN MultiOps ELSE DirectOps

Requests ==
    UNION {[route : {route}, op : {op}, authorization : Tokens, payload : Payloads(op),
            xff : ForwardedChains, xreal : RealIps, socket : SocketIps, env : Environments] :
           <<route, op>> \in {ro \in {"single", "multi", "direct"} \X (SingleOps \cup MultiOps \cup DirectOps) :
                                 ro[2] \in RoutedOps(ro[1])}}

IdleReq == [route |-> "none", op |-> "", authorization |-> None, payload |-> NoPayload,
            xff |-> <<>>, xreal |-> None, socket |-> "", env |-> [BANCO_IPS_PERMITIDAS |-> "", DEBUG |-> "False"]]
NoAuth == AuthResult(0, "", <<>>, FALSE)

\* the stored procedures the default adapter's handler of an operation calls
HandlerProcedures(op) ==
    IF op = "R4notifica" THEN <<"sp_guardar_notificacion_r4">>
    ELSE IF op = "VerificoPago" THEN <<"sp_consulta_notificacion_r4">>
    ELSE <<>>

RunHandler(op) == <<"handler">> \o [i \in 1..Len(HandlerProcedures(op)) |-> "sp_call"]

\* the fields the request schema of an operation declares as plain str
RequiredFields(op) ==
    IF op = "MBbcv" THEN {"Moneda", "Fechavalor"}
    ELSE IF op = "R4notifica" THEN {"Referencia"}
    ELSE {}

\* the body parses as the endpoint's request schema
SchemaValid(op, payload) ==
    /\ payload # NoPayload
    /\ \A f \in RequiredFields(op) : f \in DOMAIN payload /\ payload[f].t = "str"

\* the endpoint body runs on a valid body; otherwise the framework answers 422
Endpoint ==
    IF SchemaValid(req.op, req.payload)
      THEN /\ rlog' = rlog \o RunHandler(req.op)
           /\ rstatus' = 200
      ELSE /\ rlog' = Append(rlog, "schema_rejected")
           /\ rstatus' = 422

\* Depends(auth.verify_hmac_<op>): the first dependency of a single-bank route
AuthDependency ==
    /\ rstage = "received"
    /\ req.route = "single"
    /\ LET r == validar_hmac_generico(req.op, req.authorization, req.payload, get_r4_config(req.env))
       IN  /\ rdetail' = r
           /\ IF r.status = 200
                THEN /\ rstage' = "authed"
                     /\ rstatus' = rstatus
                     /\ rlog' = Append(rlog, "auth_ok")
                ELSE /\ rstage' = "responded"
                     /\ rstatus' = r.status
                     /\ rlog' = Append(rlog, "auth_rejected")
    /\ UNCHANGED req
    /\ UNCHANGED <<execVars, svcVars, regVars>>

\* Depends(auth.ip_whitelist_middleware): the second dependency
IpDependency ==
    /\ rstage = "authed"
    /\ IF ip_whitelist_middleware(req, get_r4_config(req.env))
         THEN /\ rstage' = "ip_ok"
              /\ rstatus' = rstatus
              /\ rlog' = Append(rlog, "ip_ok")
         ELSE /\ rstage' = "responded"
              /\ rstatus' = 401
              /\ rlog' = Append(rlog, "ip_rejected")
    /\ UNCHANGED <<req, rdetail>>
    /\ UNCHANGED <<execVars, svcVars, regVars>>

\* the body of a single-bank endpoint, after both dependencies returned
SingleHandler ==
    /\ rstage = "ip_ok"
    /\ Endpoint
    /\ rstage' = "responded"
    /\ UNCHANGED <<req, rdetail>>
    /\ UNCHANGED <<execVars, svcVars, regVars>>

\* a route of routers/bancos.py: get_service_for_bank, then the handler method
MultiHandler ==
    /\ rstage = "received"
    /\ req.route = "multi"
    /\ Endpoint
    /\ rstage' = "responded"
    /\ UNCHANGED <<req, rdetail>>
    /\ UNCHANGED <<execVars, svcVars, regVars>>

\* validar_hmac_generico applied to an endpoint name, outside any route
ValidarDirect ==
    /\ rstage = "received"
    /\ req.route = "direct"
    /\ LET r == validar_hmac_generico(req.op, req.authorization, req.payload, get_r4_config(req.env))
       IN  /\ rdetail' = r
           /\ rstatus' = r.status
           /\ rlog' = Append(rlog, IF r.status = 200 THEN "auth_ok" ELSE "auth_rejected")
    /\ rstage' = "responded"
    /\ UNCHANGED req
    /\ UNCHANGED <<execVars, svcVars, regVars>>

ReqIdle ==
    /\ req = IdleReq
    /\ rstage = "none"
    /\ rstatus = 0
    /\ rdetail = NoAuth
    /\ rlog = <<>>

ReqInit ==
    /\ req \in Requests
    /\ rstage = "received"
    /\ rstatus = 0
    /\ rdetail = NoAuth
    /\ rlog = <<>>

(***************************************************************************)
(* services/r4_services.py, db/repository.py: the service operations       *)
(***************************************************************************)
PyBool(b) == [t |-> "bool", i |-> IF b THEN 1 ELSE 0, s |-> ""]

\* bool(value)
Bool(v) ==
    IF v.t = "none" THEN FALSE
    ELSE IF v.t = "str" THEN v.s # ""
    ELSE v.i # 0

\* value or default
Or(v, default) == IF Bool(v) THEN v ELSE default

\* str.strip() of the strings of the model
Strip(x) == IF x \in {" ", "  "} THEN "" ELSE x

columnas_posibles ==
    <<"IdComercio", "TelefonoComercio", "TelefonoEmisor", "BancoEmisor", "Monto", "FechaHora", "Referencia">>

\* a tuple of the cursor mapped to the known column names, by position
FilaDict(tupla) ==
    [k \in {columnas_posibles[i] : i \in 1..Len(tupla)} |->
        tupla[CHOOSE i \in 1..Len(tupla) : columnas_posibles[i] = k]]

\* the first result set that is not empty, [] when there is none
PrimerNoVacio(resultados) ==
    IF \E i \in 1..Len(resultados) : resultados[i] # <<>>
      THEN resultados[CHOOSE i \in 1..Len(resultados) :
                         /\ resultados[i] # <<>>
                         /\ \A j \in 1..(i - 1) : resultados[j] = <<>>]
      ELSE <<>>

\* consultar_notificacion_por_referencia: "fila" of its answer.  directo is
\* the fallback SELECT: whether it ran without exception, and its rows.
consultar_notificacion_por_referencia(resultados, directo) ==
    LET primer_no_vacio == PrimerNoVacio(resultados)
    IN  IF primer_no_vacio # <<>> THEN FilaDict(primer_no_vacio[1])
        ELSE IF directo.ok /\ directo.rows # <<>> THEN FilaDict(directo.rows[1])
        ELSE None

\* what the bank's HTTP endpoint did with a request: the client raised
\* (timeout, connection, configuration), or answered with a status and a body
HttpRaise == [kind |-> "raise", status |-> 0, data |-> EmptyDict]
HttpStatus(n) == [kind |-> "status", status |-> n, data |-> EmptyDict]
HttpJson(data) == [kind |-> "json", status |-> 200, data |-> data]
HttpNoJson == [kind |-> "nojson", status |-> 200, data |-> EmptyDict]

VueltoResponse(code, message, reference) ==
    [code |-> code, message |-> message, reference |-> reference]

\* R4Services.procesar_vuelto
procesar_vuelto(payload, http) ==
    IF http.kind \in {"raise", "nojson"}
      THEN VueltoResponse(PyStr("08"), PyStr("Error procesando vuelto"), PyStr(""))
    ELSE IF http.status # 200
      THEN VueltoResponse(PyStr("01"), PyStr("Error HTTP"), PyStr(""))
    ELSE IF DictGet(http.data, "code", None) = PyStr("00")
      THEN VueltoResponse(PyStr("00"), DictGet(http.data, "message", PyStr("TRANSACCION EXITOSA")),
                          DictGet(http.data, "reference", PyStr("")))
    ELSE VueltoResponse(DictGet(http.data, "code", PyStr("01")), DictGet(http.data, "message", PyStr("Error")),
                        DictGet(http.data, "reference", PyStr("")))

\* the bank was not asked
NoBanco == VueltoResponse(None, None, None)

\* R4Services.verificar_pago, the bank verification block: what code_banco,
\* message_banco and reference_banco are after it
VerificacionBanco(payload, http) ==
    IF ~(\A k \in {"TelefonoDestino", "Cedula", "Banco", "Monto"} : Bool(DictGet(payload, k, None)))
      THEN VueltoResponse(PyStr("98"), PyStr("Error verificando en banco"), None)
    ELSE LET payload_banco ==
                 [TelefonoDestino |-> Or(DictGet(payload, "TelefonoDestino", None), DictGet(payload, "TelefonoEmisor", None)),
                  Cedula |-> DictGet(payload, "Cedula", None),
                  Banco |-> Or(DictGet(payload, "Banco", None), DictGet(payload, "BancoEmisor", None)),
                  Monto |-> DictGet(payload, "Monto", None)]
         IN  IF \A k \in DOMAIN payload_banco : Strip(PyStrOf(Or(payload_banco[k], PyStr("")))) # ""
               THEN procesar_vuelto(payload_banco, http)
               ELSE VueltoResponse(PyStr("99"), PyStr("Datos insuficientes para verificar en banco"), None)

\* payload.get("verificacion", payload.get("_verificacion"))
hacer_verificacion(payload) ==
    Bool(DictGet(payload, "verificacion", DictGet(payload, "_verificacion", None)))

\* R4Services.verificar_pago
verificar_pago(payload, fila_bd, http) ==
    LET referencia == DictGet(payload, "Referencia", None)
        ref_bd == IF fila_bd # None THEN DictGet(fila_bd, "Referencia", None) ELSE None
        abono_bd == fila_bd # None
        banco == IF hacer_verificacion(payload) THEN VerificacionBanco(payload, http) ELSE NoBanco
        coincide_referencia == Bool(ref_bd) /\ Bool(banco.reference) /\ ref_bd = banco.reference
        code_final ==
            IF ~abono_bd THEN PyStr("04")
            ELSE IF hacer_verificacion(payload)
              THEN IF banco.code = PyStr("00") /\ coincide_referencia THEN PyStr("00")
                   ELSE Or(banco.code, PyStr("06"))
            ELSE PyStr("00")
    IN  [code |-> code_final,
         reference |-> Or(banco.reference, Or(ref_bd, referencia)),
         abono_bd |-> abono_bd,
         coincide_referencia |-> coincide_referencia,
         code_banco |-> banco.code,
         detalle_bd |-> fila_bd]

\* the inputs of the service operations
Fila7(ref) == <<PyStr("c1"), PyStr("0414"), PyStr("0424"), PyStr("0102"), PyStr("10.00"), PyStr("f1"), PyStr(ref)>>
FilaCorta == <<PyInt(0)>>
ResultadosConsulta ==
    {<<>>, <<<<>>>>, <<<<Fila7("ref1")>>>>, <<<<>>, <<Fila7("ref1")>>>>, <<<<FilaCorta>>>>}
SelectDirecto == {[ok |-> FALSE, rows |-> <<>>], [ok |-> TRUE, rows |-> <<>>], [ok |-> TRUE, rows |-> <<Fila7("ref1")>>]}

VerificoPayloads ==
    {[k \in K |-> CASE k = "Referencia" -> PyStr("ref1")
                    [] k = "verificacion" -> v
                    [] k = "TelefonoDestino" -> tel
                    [] k = "Cedula" -> PyStr("V1")
                    [] k = "Banco" -> PyStr("0102")
                    [] OTHER -> PyStr("10.00")] :
        K \in {{"Referencia"}, {"Referencia", "verificacion"},
               {"Referencia", "verificacion", "Cedula", "Banco", "Monto"},
               {"Referencia", "verificacion", "TelefonoDestino", "Cedula", "Banco", "Monto"}},
        v \in {None, PyBool(FALSE), PyBool(TRUE)},
        tel \in {PyStr("0414"), PyStr(" ")}}

BankBodies ==
    {EmptyDict} \cup
    {[k \in K |-> IF k = "code" THEN c ELSE r] :
        K \in {{"code"}, {"code", "reference"}}, c \in {PyStr("00"), PyStr("41")}, r \in {PyStr("ref1"), PyStr("ref2")}}
HttpOutcomes == {HttpRaise, HttpStatus(500), HttpNoJson} \cup {HttpJson(d) : d \in BankBodies}

SvcNone == [op |-> "none", stage |-> "none"]

\* verificar_pago up to the answer of the database
VerificarPagoConsulta ==
    /\ svc.op = "none"
    /\ \E payload \in VerificoPayloads, resultados \in ResultadosConsulta, directo \in SelectDirecto :
          svc' = [op |-> "verificar_pago", stage |-> "consulted", payload |-> payload,
                  fila |-> consultar_notificacion_por_referencia(resultados, directo)]
    /\ UNCHANGED <<execVars, reqVars, regVars>>

\* the rest of verificar_pago: the bank is asked when the flag is set
VerificarPagoReturn ==
    /\ svc.op = "verificar_pago" /\ svc.stage = "consulted"
    /\ \E http \in (IF hacer_verificacion(svc.payload) THEN HttpOutcomes ELSE {HttpRaise}) :
          svc' = [op |-> "verificar_pago", stage |-> "returned", payload |-> svc.payload,
                  fila |-> svc.fila, http |-> http, out |-> verificar_pago(svc.payload, svc.fila, http)]
    /\ UNCHANGED <<execVars, reqVars, regVars>>

\* float(value) of the amounts of the model, in thousandths; a str that is
\* not a number and None raise, "nan" parses to the not-a-number
FloatError == [ok |-> FALSE, nan |-> FALSE, milli |-> 0]
FloatNaN == [ok |-> TRUE, nan |-> TRUE, milli |-> 0]
FloatOf(milli) == [ok |-> TRUE, nan |-> FALSE, milli |-> milli]
float(v) ==
    IF v.t # "str" THEN FloatError
    ELSE CASE v.s = "0" -> FloatOf(0)
           [] v.s = "1.00" -> FloatOf(1000)
           [] v.s = "1.005" -> FloatOf(1005)
           [] v.s = "1.01" -> FloatOf(1010)
           [] v.s = "400.00" -> FloatOf(400000)
           [] v.s = "400.01" -> FloatOf(400010)
           [] v.s = "600.00" -> FloatOf(600000)
           [] v.s = "1000.00" -> FloatOf(1000000)
           [] v.s = "1000.01" -> FloatOf(1000010)
           [] v.s = "nan" -> FloatNaN
           [] OTHER -> FloatError

RECURSIVE SumMilli(_)
SumMilli(fs) == IF fs = <<>> THEN 0 ELSE fs[1].milli + SumMilli(Tail(fs))

Abs(n) == IF n < 0 THEN -n ELSE n

\* the operands whose difference is one cent in decimal and whose difference
\* of doubles is 0.00999999999999..., below the double 0.01
RoundsBelowCent ==
    {<<1000010, <<600000, 400000>>>>, <<1000000, <<600000, 400010>>>>}

\* abs(monto_total - suma_parciales) < 0.01 in binary floating point
BelowTolerance(monto_total, parciales) ==
    LET diff == Abs(monto_total.milli - SumMilli(parciales))
    IN  IF diff = 10
          THEN <<monto_total.milli, [i \in 1..Len(parciales) |-> parciales[i].milli]>> \in RoundsBelowCent
          ELSE diff < 10

GestionResponse(success, message) == [success |-> success, message |-> message]

\* R4Services.procesar_gestion_pagos
procesar_gestion_pagos(datos) ==
    LET monto_total == float(DictGet(datos, "monto", PyStr("0")))
        personas == IF "personas" \in DOMAIN datos THEN datos.personas ELSE <<>>
        parciales == [i \in 1..Len(personas) |-> float(DictGet(personas[i], "montoPart", PyStr("0")))]
    IN  IF ~monto_total.ok \/ \E i \in 1..Len(parciales) : ~parciales[i].ok
          THEN GestionResponse(FALSE, "Error procesando dispersion")
        ELSE IF monto_total.nan \/ \E i \in 1..Len(parciales) : parciales[i].nan
          THEN GestionResponse(FALSE, "Error: suma de montos no coincide")
        ELSE IF BelowTolerance(monto_total, parciales)
          THEN GestionResponse(TRUE, "Dispersion exitosa")
          ELSE GestionResponse(FALSE, "Error: suma de montos no coincide")

Persona(montoPart) == [montoPart |-> montoPart]
PersonasPago ==
    {<<>>, <<Persona(PyStr("1.00"))>>, <<Persona(PyStr("1.005"))>>, <<EmptyDict>>,
     <<Persona(PyStr("600.00")), Persona(PyStr("400.00"))>>,
     <<Persona(PyStr("600.00")), Persona(PyStr("400.01"))>>,
     <<Persona(PyStr("600.00")), Persona(PyStr("abc"))>>,
     <<Persona(PyStr("600.00")), Persona(None)>>,
     <<Persona(PyStr("nan"))>>}
MontosPago == {PyStr("0"), PyStr("1.00"), PyStr("1.01"), PyStr("1000.00"), PyStr("1000.01"),
               PyStr("abc"), PyStr("nan"), None}
GestionDatos ==
    {[personas |-> p] : p \in PersonasPago} \cup
    {[monto |-> m, personas |-> p] : m \in MontosPago, p \in PersonasPago}

\* procesar_gestion_pagos has no await before it returns
ProcesarGestionPagos ==
    /\ svc.op = "none"
    /\ \E datos \in GestionDatos :
          svc' = [op |-> "procesar_gestion_pagos", stage |-> "returned", datos |-> datos,
                  out |-> procesar_gestion_pagos(datos)]
    /\ UNCHANGED <<execVars, reqVars, regVars>>

PyFloat(milli) == [t |-> "float", i |-> milli, s |-> ""]

BcvResponse(code, fechavalor, tipocambio) ==
    [code |-> code, fechavalor |-> fechavalor, tipocambio |-> tipocambio]

\* float(data.get("tipocambio", 0.0)) raises on a value that is not a number
TipoCambioParses(v) == v.t \in {"float", "int"} \/ (v.t = "str" /\ float(v).ok)

\* R4Services.procesar_consulta_bcv: the except branch of the bank call logs
\* and falls off the end of the function, which returns None
procesar_consulta_bcv(moneda, fecha_valor, http) ==
    LET degraded == BcvResponse(PyStr("01"), fecha_valor, PyFloat(0))
    IN  IF ~Bool(moneda) \/ ~Bool(fecha_valor) THEN degraded
        ELSE IF http.kind \in {"raise", "nojson"} THEN None
        ELSE IF http.status # 200 THEN degraded
        ELSE IF DictGet(http.data, "code", None) = PyStr("00")
          THEN IF TipoCambioParses(DictGet(http.data, "tipocambio", PyFloat(0)))
                 THEN BcvResponse(PyStr("00"), DictGet(http.data, "fechavalor", fecha_valor),
                                  DictGet(http.data, "tipocambio", PyFloat(0)))
                 ELSE None
        ELSE BcvResponse(DictGet(http.data, "code", PyStr("01")), fecha_valor, PyFloat(0))

\* R4BcvResponse(**resultado): code and fechavalor are str, tipocambio a number
R4BcvResponseValid(resultado) ==
    /\ resultado # None
    /\ resultado.code.t = "str"
    /\ resultado.fechavalor.t = "str"
    /\ TipoCambioParses(resultado.tipocambio)

\* the body of the endpoint mbcv: 500 when the response cannot be built
mbcv(resultado) == IF R4BcvResponseValid(resultado) THEN 200 ELSE 500

BcvBodies ==
    {EmptyDict,
     [code |-> PyStr("00"), tipocambio |-> PyFloat(36531)],
     [code |-> PyStr("00"), tipocambio |-> PyFloat(36531), fechavalor |-> PyStr("2024-07-23")],
     [code |-> PyStr("00"), tipocambio |-> PyStr("abc")],
     [code |-> PyStr("00")],
     [code |-> PyStr("41")]}
BcvHttpOutcomes == {HttpRaise, HttpStatus(500), HttpNoJson} \cup {HttpJson(d) : d \in BcvBodies}
Monedas == {PyStr("USD"), PyStr("usd"), PyStr("")}
FechasValor == {PyStr("2024-07-22"), PyStr("")}

\* the values of R4_MERCHANT_ID in the environment of two runs. The merchant
\* id is the key of every HMAC: Config.R4_SECRET_KEY = R4_MERCHANT_ID, and
\* core/auth.py signs and verifies with config["merchant_id"]
MerchantIds == {R4_MERCHANT_ID, "J-000000001"}

\* get_r4_config() of a run whose environment sets R4_MERCHANT_ID
R4ConfigOf(merchant_id) ==
    [get_r4_config([BANCO_IPS_PERMITIDAS |-> "", DEBUG |-> ""])
        EXCEPT !.merchant_id = PyStr(merchant_id), !.secret_key = PyStr(merchant_id)]

\* an interpolated value of a log line: a signature digest, or any other text
Texto(text) == [digest |-> FALSE, text |-> text]
Firma(text) == [digest |-> TRUE, text |-> text]

\* logger.info / logger.warning / logger.error of an f-string
LogLine(level, msg, args) == [level |-> level, msg |-> msg, args |-> args]

\* R4Authentication.generate_response_signature({"data": data_string})
generate_response_signature(data_string, merchant_id) ==
    IF merchant_id = "" THEN "" ELSE calcular_hmac_r4(data_string, merchant_id)

\* the headers of an outbound request, as their values appear in "{headers}"
Headers(hmac_signature, merchant_id) ==
    <<Texto("application/json"), Firma(hmac_signature), Texto(merchant_id)>>

\* str.upper(), for the currencies of the model
upper(str) == IF str = "usd" THEN "USD" ELSE str

\* no request was built
NoPeticion == [built |-> FALSE, body |-> EmptyDict, authorization |-> None]

\* procesar_consulta_bcv: the signature is over fecha_valor and moneda as
\* given, the body carries moneda.upper()
PeticionBcv(moneda, fecha_valor, merchant_id) ==
    IF ~Bool(moneda) \/ ~Bool(fecha_valor) THEN NoPeticion
    ELSE [built |-> TRUE,
          body |-> [Moneda |-> PyStr(upper(moneda.s)), Fechavalor |-> fecha_valor],
          authorization |-> PyStr(generate_response_signature(fecha_valor.s \o moneda.s, merchant_id))]

\* procesar_vuelto: signature over TelefonoDestino, Monto, Banco, Cedula; the
\* body carries the four of them, and Concepto and Ip when they are given
PeticionVuelto(payload, merchant_id) ==
    LET campo(k) == DictGet(payload, k, None)
        opcionales == {k \in {"Concepto", "Ip"} : Bool(campo(k))}
    IN  [built |-> TRUE,
         body |-> [k \in {"TelefonoDestino", "Cedula", "Banco", "Monto"} \cup opcionales |-> campo(k)],
         authorization |-> PyStr(generate_response_signature(
             PyStrOf(campo("TelefonoDestino")) \o PyStrOf(campo("Monto")) \o PyStrOf(campo("Banco"))
                 \o PyStrOf(campo("Cedula")), merchant_id))]

\* procesar_otp: signature over Banco, Monto, Telefono, Cedula; the body is
\* keyed banco, monto, telefono, cedula
PeticionOtp(payload, merchant_id) ==
    LET campo(k) == DictGet(payload, k, None)
    IN  [built |-> TRUE,
         body |-> [banco |-> campo("Banco"), monto |-> campo("Monto"),
                   telefono |-> campo("Telefono"), cedula |-> campo("Cedula")],
         authorization |-> PyStr(generate_response_signature(
             PyStrOf(campo("Banco")) \o PyStrOf(campo("Monto")) \o PyStrOf(campo("Telefono"))
                 \o PyStrOf(campo("Cedula")), merchant_id))]

\* R4Services.procesar_otp (services/bancos/banco_r4.py): what it returns
procesar_otp(payload, http) ==
    IF http.kind \in {"raise", "nojson"}
      THEN [code |-> PyStr("08"), message |-> PyStr("Error procesando OTP"), success |-> PyBool(FALSE)]
    ELSE IF http.status # 200
      THEN [code |-> PyStr("01"), message |-> PyStr("Error HTTP"), success |-> PyBool(FALSE)]
    ELSE IF DictGet(http.data, "code", None) = PyStr("202")
      THEN [code |-> PyStr("202"), message |-> DictGet(http.data, "message", None),
            success |-> DictGet(http.data, "success", None)]
    ELSE [code |-> DictGet(http.data, "code", PyStr("01")),
          message |-> DictGet(http.data, "message", PyStr("Error generando OTP")),
          success |-> DictGet(http.data, "success", PyBool(FALSE))]

\* the log lines of procesar_consulta_bcv
LogConsultaBcv(moneda, fecha_valor, http, merchant_id) ==
    LET hmac_data == fecha_valor.s \o moneda.s
        hmac_signature == generate_response_signature(hmac_data, merchant_id)
        headers == Headers(hmac_signature, merchant_id)
        payload == <<Texto(upper(moneda.s)), Texto(fecha_valor.s)>>
        inicio == <<LogLine("info", "Consultando tasa BCV al banco R4", <<Texto(moneda.s), Texto(fecha_valor.s)>>)>>
        firmado == <<LogLine("info", "HMAC Data generado", <<Firma(hmac_signature)>>),
                     LogLine("info", "Enviando al banco", <<>>),
                     LogLine("info", "HMAC Data", <<Texto(hmac_data)>>),
                     LogLine("info", "HMAC Signature", <<Firma(hmac_signature)>>),
                     LogLine("info", "Headers", headers),
                     LogLine("info", "Payload", payload)>>
        enviado == <<LogLine("info", "Consulta enviada al banco R4", payload \o headers),
                     LogLine("info", "Respuesta del banco", <<>>)>>
        fallo == <<LogLine("error", "Error consultando banco R4", <<>>)>>
    IN  IF ~Bool(moneda) \/ ~Bool(fecha_valor) THEN inicio
        ELSE IF http.kind = "raise" THEN inicio \o firmado \o fallo
        ELSE IF http.kind = "nojson" THEN inicio \o firmado \o enviado \o fallo
        ELSE IF http.status # 200
          THEN inicio \o firmado \o enviado \o <<LogLine("error", "Error HTTP del banco", <<>>)>>
        ELSE IF DictGet(http.data, "code", None) = PyStr("00")
          THEN inicio \o firmado \o enviado \o <<LogLine("info", "Tasa BCV obtenida del banco", <<Texto(moneda.s)>>)>>
                   \o (IF TipoCambioParses(DictGet(http.data, "tipocambio", PyFloat(0))) THEN <<>> ELSE fallo)
        ELSE inicio \o firmado \o enviado \o <<LogLine("warning", "Banco devolvio error", <<>>)>>

\* the log lines of procesar_vuelto
LogVuelto(payload, http, merchant_id) ==
    LET campo(k) == PyStrOf(DictGet(payload, k, None))
        hmac_data == campo("TelefonoDestino") \o campo("Monto") \o campo("Banco") \o campo("Cedula")
        hmac_signature == generate_response_signature(hmac_data, merchant_id)
        body == <<Texto(campo("TelefonoDestino")), Texto(campo("Cedula")), Texto(campo("Banco")),
                  Texto(campo("Monto"))>>
        solicitado == <<LogLine("info", "Vuelto solicitado", body \o Headers(hmac_signature, merchant_id))>>
        fallo == <<LogLine("error", "Error procesando vuelto", <<>>)>>
    IN  IF http.kind = "raise" THEN fallo
        ELSE IF http.kind = "nojson" THEN solicitado \o fallo
        ELSE solicitado

\* the log lines of validar_hmac_generico
LogValidarHmac(endpoint, authorization, payload, cfg) ==
    LET hmac_config == HmacConfigGet(endpoint)
        token == IF authorization = None THEN "" ELSE authorization.s
    IN  IF NotAuthorization(authorization)
          THEN <<LogLine("error", "Header Authorization faltante", <<Texto(endpoint)>>)>>
        ELSE IF hmac_config = NoPolicy
          THEN <<LogLine("error", "Configuracion HMAC no encontrada", <<Texto(endpoint)>>)>>
        ELSE IF hmac_config.requires_uuid
          THEN IF validar_uuid(authorization, cfg) THEN <<>>
               ELSE <<LogLine("error", "Token UUID invalido", <<Texto(endpoint), Texto(token)>>)>>
        ELSE IF payload = NoPayload
          THEN <<LogLine("error", "Error validando HMAC", <<Texto(endpoint)>>)>>
        ELSE LET params == hmac_config.params
                 m == FirstMissing(params, payload)
             IN  IF m # 0
                   THEN <<LogLine("error", "Parametro faltante para HMAC", <<Texto(endpoint), Texto(params[m])>>)>>
                   ELSE LET data_parts == [i \in 1..Len(params) |-> PyStrOf(PayloadGet(payload, params[i]))]
                            data_string == Join(hmac_config.separator, data_parts)
                            verified == verificar_hmac_r4(data_string, authorization.s, cfg.merchant_id.s)
                            yerro == IF authorization.s = FirmaNoAscii
                                       THEN <<LogLine("error", "Error verificando HMAC", <<>>)>> ELSE <<>>
                        IN  IF verified.value
                              THEN <<LogLine("info", "HMAC valido", <<Texto(endpoint)>>)>>
                              ELSE yerro \o <<LogLine("error", "HMAC invalido", <<Texto(endpoint)>>),
                                              LogLine("error", "Data string", <<Texto(data_string)>>),
                                              LogLine("error", "Firma recibida", <<Firma(token)>>)>>

\* the endpoint mbcv around procesar_consulta_bcv and the bank's answer
ProcesarConsultaBcv ==
    /\ svc.op = "none"
    /\ \E moneda \in Monedas, fecha_valor \in FechasValor, http \in BcvHttpOutcomes,
          merchant_id \in MerchantIds :
          LET resultado == procesar_consulta_bcv(moneda, fecha_valor, http)
          IN  svc' = [op |-> "procesar_consulta_bcv", stage |-> "returned", moneda |-> moneda,
                      fecha_valor |-> fecha_valor, http |-> http, out |-> resultado,
                      status |-> mbcv(resultado), merchant_id |-> merchant_id,
                      sent |-> PeticionBcv(moneda, fecha_valor, merchant_id),
                      log |-> LogConsultaBcv(moneda, fecha_valor, http, merchant_id)]
    /\ UNCHANGED <<execVars, reqVars, regVars>>

VueltoPayloads ==
    {[TelefonoDestino |-> PyStr("0414"), Cedula |-> PyStr("V1"), Banco |-> PyStr("0102"), Monto |-> PyStr("10.00")],
     [TelefonoDestino |-> PyStr("0414"), Cedula |-> PyStr("V1"), Banco |-> PyStr("0102"), Monto |-> PyStr("10.00"),
      Concepto |-> PyStr("vuelto")],
     EmptyDict}

\* procesar_vuelto and the bank's answer
ProcesarVuelto ==
    /\ svc.op = "none"
    /\ \E payload \in VueltoPayloads, http \in HttpOutcomes, merchant_id \in MerchantIds :
          svc' = [op |-> "procesar_vuelto", stage |-> "returned", payload |-> payload, http |-> http,
                  out |-> procesar_vuelto(payload, http), merchant_id |-> merchant_id,
                  sent |-> PeticionVuelto(payload, merchant_id),
                  log |-> LogVuelto(payload, http, merchant_id)]
    /\ UNCHANGED <<execVars, reqVars, regVars>>

OtpPayloads ==
    {[Banco |-> PyStr("0102"), Monto |-> PyStr("10.00"), Telefono |-> PyStr("0414"), Cedula |-> PyStr("V1")],
     EmptyDict}
OtpHttpOutcomes ==
    {HttpRaise, HttpStatus(500), HttpNoJson, HttpJson(EmptyDict),
     HttpJson([code |-> PyStr("202"), message |-> PyStr("ok"), success |-> PyBool(TRUE)])}

\* procesar_otp and the bank's answer
ProcesarOtp ==
    /\ svc.op = "none"
    /\ \E payload \in OtpPayloads, http \in OtpHttpOutcomes, merchant_id \in MerchantIds :
          svc' = [op |-> "procesar_otp", stage |-> "returned", payload |-> payload, http |-> http,
                  out |-> procesar_otp(payload, http), merchant_id |-> merchant_id,
                  sent |-> PeticionOtp(payload, merchant_id)]
    /\ UNCHANGED <<execVars, reqVars, regVars>>

\* a JSON body that is not an object: request.json() of the dynamic
\* dispatcher hands it to the handler as it is
PyList == [t |-> "list", i |-> 0, s |-> ""]
IsDict(payload) == payload \notin {None, PyList, PyStr("x"), PyInt(1)}

\* R4Services.procesar_consulta_cliente (services/r4_services.py)
procesar_consulta_cliente(id_cliente, monto, telefono) == [status |-> TRUE]

\* R4Services.procesar_consulta_cliente (services/bancos/banco_r4.py): the
\* intent is staged with guardar_transito_sp, whose envelope is not looked at
procesar_consulta_cliente_transito(id_cliente, monto, telefono, respuesta) == [status |-> TRUE]

\* BankR4Adapter.consulta_cliente: payload.get raises on a payload that is
\* not a dict, and the except branch answers status False
consulta_cliente(payload) ==
    IF IsDict(payload)
      THEN procesar_consulta_cliente(Or(DictGet(payload, "IdCliente", None), DictGet(payload, "cliente_id", None)),
                                     DictGet(payload, "Monto", None), DictGet(payload, "TelefonoComercio", None))
      ELSE [status |-> FALSE]

ConsultaPayloads ==
    {EmptyDict, [IdCliente |-> PyStr("V1")], [cliente_id |-> PyStr("V1")],
     [IdCliente |-> PyStr("V1"), Monto |-> PyStr("10.00"), TelefonoComercio |-> PyStr("0414")],
     [IdCliente |-> None, Monto |-> PyInt(1)],
     None, PyList, PyStr("x"), PyInt(1)}

\* the envelope of the executor for the staging call
TransitoEnvelopes == {[exito |-> TRUE, error |-> None], [exito |-> FALSE, error |-> PyStr("error")]}

\* the default adapter's client-intent query
ConsultaCliente ==
    /\ svc.op = "none"
    /\ \E payload \in ConsultaPayloads :
          svc' = [op |-> "consulta_cliente", stage |-> "returned", payload |-> payload,
                  out |-> consulta_cliente(payload)]
    /\ UNCHANGED <<execVars, reqVars, regVars>>

\* the staging variant of the client-intent query
ConsultaClienteTransito ==
    /\ svc.op = "none"
    /\ \E payload \in {p \in ConsultaPayloads : IsDict(p)}, respuesta \in TransitoEnvelopes :
          svc' = [op |-> "procesar_consulta_cliente", stage |-> "returned", payload |-> payload,
                  transito |-> respuesta,
                  out |-> procesar_consulta_cliente_transito(DictGet(payload, "IdCliente", None),
                              DictGet(payload, "Monto", None), DictGet(payload, "TelefonoComercio", None), respuesta)]
    /\ UNCHANGED <<execVars, reqVars, regVars>>

\* r4_client.procesar_y_guardar: the body runs inside try / except Exception,
\* so a failure of the body is reported in the envelope and nothing is raised
procesar_y_guardar(datos, body_raises) ==
    IF body_raises
      THEN Returns([success |-> FALSE, message |-> PyStr("Error"), id |-> None])
      ELSE Returns([success |-> TRUE, message |-> PyStr("Operacion procesada correctamente"),
                    id |-> PyStr("12345")])

\* BankR4Adapter.debito_inmediato / credito_inmediato and the endpoints of the
\* same names: ACCP unless the await raised; the envelope is not looked at
debito_inmediato(guardado) ==
    IF guardado.raised
      THEN [code |-> "AC00", reference |-> None, Id |-> PyStr("uuid4")]
      ELSE [code |-> "ACCP", reference |-> PyStr("12345678"), Id |-> PyStr("uuid4")]

credito_inmediato(guardado) ==
    IF guardado.raised
      THEN [code |-> "AC00", reference |-> None, Id |-> PyStr("uuid4")]
      ELSE [code |-> "ACCP", reference |-> PyStr("12345678"), Id |-> PyStr("uuid4")]

\* BankR4Adapter.ci_cuentas: the accepted answer carries no Id
ci_cuentas(guardado) ==
    IF guardado.raised
      THEN [code |-> "AC00", reference |-> None, Id |-> PyStr("uuid4")]
      ELSE [code |-> "ACCP", reference |-> PyStr("12345678"), Id |-> None]

OperacionesInmediatas == {"debito_inmediato", "credito_inmediato", "ci_cuentas"}

\* an immediate debit, immediate credit or account credit and its
\* persistence step
OperacionInmediata ==
    /\ svc.op = "none"
    /\ \E op \in OperacionesInmediatas, payload \in VueltoPayloads, body_raises \in BOOLEAN :
          LET guardado == procesar_y_guardar(payload, body_raises)
          IN  svc' = [op |-> op, stage |-> "returned", payload |-> payload, guardado |-> guardado,
                      out |-> CASE op = "debito_inmediato" -> debito_inmediato(guardado)
                                [] op = "credito_inmediato" -> credito_inmediato(guardado)
                                [] OTHER -> ci_cuentas(guardado)]
    /\ UNCHANGED <<execVars, reqVars, regVars>>

SvcIdle == svc = SvcNone

(***************************************************************************)
(* core/bank_registry.py, services/bancos: the registry of bank handlers.  *)
(* An identifier is a sequence of characters, so that strip, lower,        *)
(* isdigit and zfill are computed character by character.                  *)
(***************************************************************************)
Mayusculas == <<"A", "B", "C", "D", "E", "F", "G", "H", "I", "J", "K", "L", "M",
                "N", "O", "P", "Q", "R", "S", "T", "U", "V", "W", "X", "Y", "Z">>
Minusculas == <<"a", "b", "c", "d", "e", "f", "g", "h", "i", "j", "k", "l", "m",
                "n", "o", "p", "q", "r", "s", "t", "u", "v", "w", "x", "y", "z">>
Digitos == {"0", "1", "2", "3", "4", "5", "6", "7", "8", "9"}
Blancos == {" "}

\* str.lower()
lower(x) ==
    [i \in 1..Len(x) |->
        IF \E j \in 1..26 : Mayusculas[j] = x[i]
          THEN Minusculas[CHOOSE j \in 1..26 : Mayusculas[j] = x[i]]
          ELSE x[i]]

\* str.strip()
strip(x) ==
    IF \A i \in 1..Len(x) : x[i] \in Blancos THEN <<>>
    ELSE LET a == CHOOSE i \in 1..Len(x) : x[i] \notin Blancos /\ \A j \in 1..(i - 1) : x[j] \in Blancos
             b == CHOOSE i \in 1..Len(x) : x[i] \notin Blancos /\ \A j \in (i + 1)..Len(x) : x[j] \in Blancos
         IN  SubSeq(x, a, b)

\* str.isdigit()
isdigit(x) == x # <<>> /\ \A i \in 1..Len(x) : x[i] \in Digitos

\* str.zfill(width) of a string of digits
zfill(x, width) == IF Len(x) >= width THEN x ELSE [i \in 1..(width - Len(x)) |-> "0"] \o x

\* BANK_CONFIG as the module defines it: code, alias, service_cls
TablaInicial ==
    {
     <<<<"r", "4">>, <<"r", "4">>, "BancoR4Service">>,
     <<<<"0", "1", "3", "4">>, <<"b", "a", "n", "e", "s", "c", "o">>, "BancoBanescoService">>,
     <<<<"0", "1", "0", "2">>, <<"b", "d", "v">>, "BancoBDVService">>,
     <<<<"0", "1", "0", "4">>, <<"b", "v", "c">>, "BancoBVCService">>,
     <<<<"0", "1", "0", "5">>, <<"m", "e", "r", "c", "a", "n", "t", "i", "l">>, "BancoMercantilService">>,
     <<<<"0", "1", "0", "8">>, <<"p", "r", "o", "v", "i", "n", "c", "i", "a", "l">>, "BancoProvincialService">>,
     <<<<"0", "1", "1", "4">>, <<"b", "a", "n", "c", "a", "r", "i", "b", "e">>, "BancoBancaribeService">>,
     <<<<"0", "1", "1", "5">>, <<"b", "a", "n", "c", "o", "e", "x", "t", "e", "r", "i", "o", "r">>, "BancoExteriorService">>,
     <<<<"0", "1", "2", "8">>, <<"c", "a", "r", "o", "n", "i">>, "BancoCaroniService">>,
     <<<<"0", "1", "3", "7">>, <<"s", "o", "f", "i", "t", "a", "s", "a">>, "BancoSofitasaService">>,
     <<<<"0", "1", "3", "8">>, <<"p", "l", "a", "z", "a">>, "BancoPlazaService">>,
     <<<<"0", "1", "4", "6">>, <<"b", "a", "n", "g", "e", "n", "t", "e">>, "BancoBangenteService">>,
     <<<<"0", "1", "5", "1">>, <<"b", "f", "c">>, "BancoBfcService">>,
     <<<<"0", "1", "5", "6">>, <<"1", "0", "0", "b", "a", "n", "c", "o">>, "Banco100bancoService">>,
     <<<<"0", "1", "5", "7">>, <<"d", "e", "l", "s", "u", "r">>, "BancoDelsurService">>,
     <<<<"0", "1", "6", "3">>, <<"t", "e", "s", "o", "r", "o">>, "BancoTesoroService">>,
     <<<<"0", "1", "6", "6">>, <<"a", "g", "r", "i", "c", "o", "l", "a">>, "BancoAgricolaService">>,
     <<<<"0", "1", "6", "8">>, <<"b", "a", "n", "c", "r", "e", "c", "e", "r">>, "BancoBancrecerService">>,
     <<<<"0", "1", "6", "9">>, <<"m", "i", "b", "a", "n", "c", "o">>, "BancoMibancoService">>,
     <<<<"0", "1", "7", "1">>, <<"a", "c", "t", "i", "v", "o">>, "BancoActivoService">>,
     <<<<"0", "1", "7", "2">>, <<"b", "a", "n", "c", "a", "m", "i", "g", "a">>, "BancoBancamigaService">>,
     <<<<"0", "1", "7", "4">>, <<"b", "a", "n", "p", "l", "u", "s">>, "BancoBanplusService">>,
     <<<<"0", "1", "7", "5">>, <<"b", "i", "c", "e", "n", "t", "e", "n", "a", "r", "i", "o">>, "BancoBicentenarioService">>,
     <<<<"0", "1", "7", "7">>, <<"b", "a", "n", "f", "a", "n", "b">>, "BancoBanfanbService">>,
     <<<<"0", "1", "9", "1">>, <<"b", "n", "c">>, "BancoBncService">>}

\* the codes in the order of the dict literal
OrdenInicial ==
    <<<<"r", "4">>, <<"0", "1", "3", "4">>, <<"0", "1", "0", "2">>, <<"0", "1", "0", "4">>,
      <<"0", "1", "0", "5">>, <<"0", "1", "0", "8">>, <<"0", "1", "1", "4">>, <<"0", "1", "1", "5">>,
      <<"0", "1", "2", "8">>, <<"0", "1", "3", "7">>, <<"0", "1", "3", "8">>, <<"0", "1", "4", "6">>,
      <<"0", "1", "5", "1">>, <<"0", "1", "5", "6">>, <<"0", "1", "5", "7">>, <<"0", "1", "6", "3">>,
      <<"0", "1", "6", "6">>, <<"0", "1", "6", "8">>, <<"0", "1", "6", "9">>, <<"0", "1", "7", "1">>,
      <<"0", "1", "7", "2">>, <<"0", "1", "7", "4">>, <<"0", "1", "7", "5">>, <<"0", "1", "7", "7">>,
      <<"0", "1", "9", "1">>>>

BankConfigEntry(alias, service_cls) == [alias |-> alias, service_cls |-> service_cls]
BankConfigInicial ==
    [code \in {e[1] : e \in TablaInicial} |->
        LET e == CHOOSE e \in TablaInicial : e[1] = code IN BankConfigEntry(e[2], e[3])]

\* the loop that fills ALIAS_INDEX when the module is imported
AliasIndexInicial ==
    [alias \in {lower(e[2]) : e \in TablaInicial} |->
        LET e == CHOOSE e \in TablaInicial : lower(e[2]) = alias
        IN  [alias |-> e[2], service_cls |-> e[3], code |-> e[1]]]

KeyError == [found |-> FALSE, cfg |-> BankConfigEntry(<<>>, "")]
Found(cfg) == [found |-> TRUE, cfg |-> BankConfigEntry(cfg.alias, cfg.service_cls)]

\* for code, cfg in BANK_CONFIG.items(): the first entry with that alias, in
\* the order of the dict (the seeded codes first, as the literal lists them)
ConAlias(k, bank_config) == {code \in DOMAIN bank_config : lower(bank_config[code].alias) = k}
Posicion(code) == CHOOSE i \in 1..Len(OrdenInicial) : OrdenInicial[i] = code
PrimeroConAlias(k, bank_config) ==
    LET M == ConAlias(k, bank_config)
        S == {code \in M : \E i \in 1..Len(OrdenInicial) : OrdenInicial[i] = code}
    IN  IF S # {} THEN CHOOSE code \in S : \A other \in S : Posicion(code) <= Posicion(other)
        ELSE CHOOSE code \in M : TRUE

\* the variant that does not trim the key
get_bank_config_nostrip(key, bank_config, alias_index) ==
    LET k == lower(key)
    IN  IF key = <<>> THEN KeyError
        ELSE IF k \in DOMAIN alias_index THEN Found(alias_index[k])
        ELSE IF k \in DOMAIN bank_config THEN Found(bank_config[k])
        ELSE IF ConAlias(k, bank_config) # {} THEN Found(bank_config[PrimeroConAlias(k, bank_config)])
        ELSE KeyError

\* get_bank_config: the alias index, then the code, then a scan of the aliases
get_bank_config(key, bank_config, alias_index) ==
    LET k == lower(strip(key))
    IN  IF key = <<>> THEN KeyError
        ELSE IF k \in DOMAIN alias_index THEN Found(alias_index[k])
        ELSE IF k \in DOMAIN bank_config THEN Found(bank_config[k])
        ELSE IF ConAlias(k, bank_config) # {} THEN Found(bank_config[PrimeroConAlias(k, bank_config)])
        ELSE KeyError

\* the operations of the handler contract, as the routes call them
OperacionesContrato ==
    {"consultar_tasa", "consulta_cliente", "procesar_notificacion", "procesar_vuelto",
     "procesar_gestion_pagos", "generar_otp", "debito_inmediato", "credito_inmediato",
     "domiciliacion_cnta", "domiciliacion_cele", "consultar_operaciones", "ci_cuentas",
     "mb_c2p", "mb_anulacion_c2p", "verificar_pago"}

\* BaseBankService: the methods marked @abstractmethod
MetodosAbstractos == {"consultar_tasa", "consulta_cliente", "procesar_notificacion", "procesar_vuelto"}

\* the handler classes whose module is in the repository
ClasesPlantilla == {"BancoExteriorService", "BancoCaroniService", "BancoBangenteService", "Banco100bancoService"}
MetodosPlantilla == {"consulta", "respuesta", "consultar_tasa", "procesar_notificacion", "consulta_cliente"}

\* the handler classes the registry imports from modules that are not in the
\* repository: variants of the default adapter
ClasesSinModulo ==
    {"BancoR4Service", "BancoBanescoService", "BancoBDVService", "BancoBVCService",
     "BancoMercantilService", "BancoProvincialService", "BancoBancaribeService", "BancoSofitasaService",
     "BancoPlazaService", "BancoBfcService", "BancoDelsurService", "BancoTesoroService",
     "BancoAgricolaService", "BancoBancrecerService", "BancoMibancoService", "BancoActivoService",
     "BancoBancamigaService", "BancoBanplusService", "BancoBicentenarioService", "BancoBanfanbService", "BancoBncService"}
MetodosSinModulo(cls) == OperacionesContrato

\* the methods a handler class defines or inherits
Metodos(cls) ==
    IF cls \in {"BankR4Adapter", "TemplateBankService"} THEN OperacionesContrato
    ELSE IF cls \in ClasesPlantilla THEN MetodosPlantilla
    ELSE MetodosSinModulo(cls)

\* svc_cls(bank_code=key): a class with an abstract method left cannot be
\* instantiated (TypeError)
Instanciar(cls, key) ==
    IF MetodosAbstractos \subseteq Metodos(cls)
      THEN [raised |-> FALSE, cls |-> cls, bank_code |-> key]
      ELSE [raised |-> TRUE, cls |-> cls, bank_code |-> key]

\* get_service_for_bank, up to the class it selects
SeleccionarClase(key, bank_config, alias_index) ==
    LET first == get_bank_config(key, bank_config, alias_index)
        cfg == IF first.found THEN first
               ELSE IF isdigit(key) THEN get_bank_config(zfill(key, 4), bank_config, alias_index)
               ELSE KeyError
    IN  IF cfg.found THEN cfg.cfg.service_cls ELSE "BankR4Adapter"

\* get_service_for_bank
get_service_for_bank(key, bank_config, alias_index) ==
    Instanciar(SeleccionarClase(key, bank_config, alias_index), key)

\* register_bank: BANK_CONFIG[code] is replaced, ALIAS_INDEX is not touched
register_bank(code, alias, service_cls, bank_config) ==
    [c \in DOMAIN bank_config \cup {code} |->
        IF c = code
          THEN BankConfigEntry(IF alias = <<>> THEN code ELSE alias,
                               IF service_cls = "" THEN "BankR4Adapter" ELSE service_cls)
          ELSE bank_config[c]]

MaxRegistros == 2

\* the identifiers asked for, and the registrations made at run time
Identificadores ==
    {<<"0", "1", "3", "4">>, <<"b", "a", "n", "e", "s", "c", "o">>, <<"B", "A", "N", "E", "S", "C", "O">>, <<"B", "a", "n", "e", "s", "c", "o">>, <<"1", "3", "4">>,
     <<" ", "0", "1", "3", "4">>, <<" ", "b", "a", "n", "e", "s", "c", "o", " ">>, <<"B", "A", "N", "E", "S", "C", "O", " ">>, <<" ", "1", "3", "4", " ">>,
     <<"0", "1", "0", "2">>, <<"1", "0", "2">>, <<"b", "d", "v">>, <<"r", "4">>, <<"R", "4">>,
     <<"0", "1", "1", "5">>, <<"1", "1", "5">>, <<"b", "a", "n", "c", "o", "e", "x", "t", "e", "r", "i", "o", "r">>, <<"0", "1", "5", "6">>, <<"1", "0", "0", "b", "a", "n", "c", "o">>, <<"1", "0", "0", "B", "A", "N", "C", "O">>,
     <<"9", "9", "9", "9">>, <<"n", "u", "e", "v", "o">>, <<"9", "9", "9", "9", "9">>, <<>>, <<" ">>}
RegistroCodes == {<<"0", "1", "3", "4">>, <<"9", "9", "9", "9">>}
RegistroAlias == {<<>>, <<"b", "a", "n", "e", "s", "c", "o">>, <<"n", "u", "e", "v", "o">>}
RegistroClases == {"", "TemplateBankService"}

NoLookup == [key |-> <<>>, asked |-> FALSE, tras |-> 0, raised |-> FALSE, cls |-> ""]

\* a call of register_bank
RegisterBank ==
    /\ registros < MaxRegistros
    /\ \E code \in RegistroCodes, alias \in RegistroAlias, service_cls \in RegistroClases :
          BANK_CONFIG' = register_bank(code, alias, service_cls, BANK_CONFIG)
    /\ registros' = registros + 1
    /\ UNCHANGED <<ALIAS_INDEX, lookup>>
    /\ UNCHANGED <<execVars, reqVars, svcVars>>

\* a call of get_service_for_bank
GetServiceForBank ==
    /\ \E key \in Identificadores :
          LET r == get_service_for_bank(key, BANK_CONFIG, ALIAS_INDEX)
          IN  lookup' = [key |-> key, asked |-> TRUE, tras |-> registros, raised |-> r.raised, cls |-> r.cls]
    /\ UNCHANGED <<BANK_CONFIG, ALIAS_INDEX, registros>>
    /\ UNCHANGED <<execVars, reqVars, svcVars>>

RegInit ==
    /\ BANK_CONFIG = BankConfigInicial
    /\ ALIAS_INDEX = AliasIndexInicial
    /\ registros = 0
    /\ lookup = NoLookup

(***************************************************************************)
(* Specifications                                                          *)
(***************************************************************************)
Init == ExecInit /\ ReqIdle /\ SvcIdle /\ RegInit

\* one call of ejecutar_sp_generico, step by step
ExecutorStep(t) ==
    \/ CreatePoolOk(t) \/ CreatePoolFail(t)
    \/ AcquireOk(t) \/ AcquireFail(t)
    \/ CursorOk(t) \/ CursorFail(t)
    \/ CallOk(t) \/ CallFailBefore(t) \/ CallFailAfter(t)
    \/ DrainOk(t) \/ DrainFail(t)
    \/ OutSelectOk(t) \/ OutSelectFail(t)
    \/ Finally(t)

\* concurrent payment notifications, each on its own event-loop task
Next ==
    \E t \in Tasks :
        StartNotifica(t, MismaReferencia) \/ NotificaExcept(t) \/ ExecutorStep(t)

Spec == Init /\ [][Next]_vars

\* one call of the executor by any of its callers, with or without a
\* connection of the caller's
NextExec ==
    \/ StartNotifica(1, NotificaDatos) \/ StartConsulta(1) \/ StartProceso(1)
    \/ ExecutorStep(1)

SpecExec == Init /\ [][NextExec]_vars

InitReq == ExecInit /\ ReqInit /\ SvcIdle /\ RegInit

NextReq == AuthDependency \/ IpDependency \/ SingleHandler \/ MultiHandler \/ ValidarDirect

SpecReq == InitReq /\ [][NextReq]_vars

\* the health probe and the direct query, called again and again by
\* concurrent tasks
DirectStep(t) ==
    \/ DirectStart(t)
    \/ DirectCreatePoolOk(t) \/ DirectCreatePoolFail(t)
    \/ DirectAcquireOk(t) \/ DirectAcquireFail(t)
    \/ DirectCursorOk(t) \/ DirectCursorFail(t)
    \/ DirectQueryOk(t) \/ DirectQueryFail(t)
    \/ DirectCloseOk(t) \/ DirectCloseFail(t)

NextDirect == \E t \in Tasks : DirectStep(t)

SpecDirect == Init /\ [][NextDirect]_vars

\* one call of a service operation
NextSvc ==
    \/ VerificarPagoConsulta \/ VerificarPagoReturn
    \/ ProcesarGestionPagos
    \/ ProcesarConsultaBcv \/ ProcesarVuelto \/ ProcesarOtp
    \/ ConsultaCliente \/ ConsultaClienteTransito
    \/ OperacionInmediata

SpecSvc == Init /\ [][NextSvc]_vars

\* registrations and resolutions of bank handlers
NextReg == RegisterBank \/ GetServiceForBank

SpecReg == Init /\ [][NextReg]_vars

(***************************************************************************)
(* Payment notifications                                                   *)
(***************************************************************************)

Carrying(r) == {t \in Tasks : call[t].kind = "notifica" /\ call[t].parametros_in[8] = PyStr(r)}

\* C2 as stated: once the notifications carrying one Referencia are all
\* answered and the reference is persisted, the one that persisted it is
\* answered abono=true and every other one abono=false with the duplicate
\* message.
C2_ExactlyOneCredited ==
    \A r \in Referencias :
        (/\ persistedBy[r] # 0
         /\ \A t \in Carrying(r) : resp[t].answered)
        => /\ resp[persistedBy[r]].abono
           /\ \A t \in Carrying(r) \ {persistedBy[r]} :
                  ~resp[t].abono /\ resp[t].mensaje = MSG_DUP

\* C2 (amended): among the notifications carrying one Referencia only the one
\* whose call persisted it can be answered abono=true, and it is exactly when
\* its executor call returned a success envelope; every other one is answered
\* abono=false, with the duplicate message when its own call succeeded with
\* the approved CodigoRed.
C2_AtMostOneCredited ==
    \A r \in Referencias : \A t \in Carrying(r) :
        resp[t].answered =>
            /\ resp[t].abono => persistedBy[r] = t
            /\ persistedBy[r] = t => (resp[t].abono <=> ret[t].exito)
            /\ (persistedBy[r] # t /\ ret[t].exito /\ call[t].parametros_in[9] = PyStr("00"))
                   => (~resp[t].abono /\ resp[t].mensaje = MSG_DUP)

\* two answered notifications of one Referencia: the persisting one credited,
\* the other refused as a duplicate
C2_Witness ==
    \E r \in Referencias : \E t, u \in Carrying(r) :
        /\ t # u
        /\ persistedBy[r] = t /\ resp[t].answered /\ resp[t].abono
        /\ resp[u].answered /\ ~resp[u].abono /\ resp[u].mensaje = MSG_DUP

(***************************************************************************)
(* Inbound authentication                                                  *)
(***************************************************************************)

InLog(what) == \E i \in 1..Len(rlog) : rlog[i] = what

\* the verdict of the operation's auth policy on the request in hand
PolicyVerdict ==
    validar_hmac_generico(req.op, req.authorization, req.payload, get_r4_config(req.env))

\* C3: on every operation route, single-bank or multi-bank, the handler and
\* any stored-procedure call run only for a request that passed the auth
\* policy check of its operation.
C3_AuthBeforeHandler ==
    (req.route \in {"single", "multi"} /\ (InLog("handler") \/ InLog("sp_call")))
        => PolicyVerdict.status = 200

\* validar_hmac_generico has answered the request in hand
Validated == rdetail.status # 0

TokenOnly(op) == op \in DOMAIN HMAC_CONFIG /\ HMAC_CONFIG[op].requires_uuid
HmacGuarded(op) == op \in DOMAIN HMAC_CONFIG /\ ~HMAC_CONFIG[op].requires_uuid

AbsentFields(op, payload) ==
    {i \in 1..Len(HMAC_CONFIG[op].params) :
        \/ HMAC_CONFIG[op].params[i] \notin DOMAIN payload
        \/ payload[HMAC_CONFIG[op].params[i]] = None}

\* the signature the policy of the operation expects for the body
ExpectedSignature(op, payload) ==
    LET params == HMAC_CONFIG[op].params
    IN  PyStr(calcular_hmac_r4(
            Join(HMAC_CONFIG[op].separator, [i \in 1..Len(params) |-> PyStrOf(payload[params[i]])]),
            R4_MERCHANT_ID))

\* what step 3 of the policy check prescribes for the request in hand
HmacVerdictAsSpecified ==
    LET absent == AbsentFields(req.op, req.payload)
    IN  IF absent # {}
          THEN /\ rdetail.status = 400
               /\ rdetail.detail = "Parametro " \o HMAC_CONFIG[req.op].params[MinOf(absent)]
                                        \o " requerido para autenticacion"
               /\ ~rdetail.hmac_computed
          ELSE /\ rdetail.status = 200 <=> req.authorization = ExpectedSignature(req.op, req.payload)
               /\ rdetail.status \in {200, 401}

\* C5 as stated: on an HMAC-guarded operation every request missing a policy
\* field is refused with 400 naming the first such field, and a request with
\* all fields is accepted exactly when its token is the HMAC of their join.
C5_MissingFieldThenSignature ==
    (Validated /\ HmacGuarded(req.op)) => HmacVerdictAsSpecified

\* C5 (amended): the same for a request that carries a non-empty
\* Authorization value and a body; one without either is refused with 401
\* before any field is examined.
C5_WithTokenAndBody ==
    (Validated /\ HmacGuarded(req.op)) =>
        IF NotAuthorization(req.authorization) \/ req.payload = NoPayload
          THEN rdetail.status = 401 /\ rdetail.fields_read = <<>> /\ ~rdetail.hmac_computed
          ELSE HmacVerdictAsSpecified

\* a body lacking both fields of MBbcv, sent with a token: 400 naming the
\* first of them
C5_Witness ==
    /\ Validated /\ req.op = "MBbcv"
    /\ ~NotAuthorization(req.authorization)
    /\ req.payload # NoPayload /\ AbsentFields(req.op, req.payload) = {1, 2}
    /\ rdetail.status = 400
    /\ rdetail.detail = "Parametro Fechavalor requerido para autenticacion"

ResolvedAddress(r) ==
    IF r.xff # <<>> THEN r.xff[1]
    ELSE IF r.xreal # None THEN r.xreal.s
    ELSE r.socket

\* C7: on every guarded operation a request whose resolved client address is
\* outside the allow-list is answered 401 whatever its signature or token,
\* and one whose resolved address is inside is not turned away by the
\* address check.
C7_IpAllowList ==
    (rstage = "responded" /\ req.route \in {"single", "multi"} /\ req.op \in DOMAIN HMAC_CONFIG) =>
        IF InSeq(ResolvedAddress(req), get_r4_config(req.env).allowed_ips)
          THEN ~InLog("ip_rejected")
          ELSE rstatus = 401 /\ ~InLog("handler")

(***************************************************************************)
(* The stored-procedure executor                                           *)
(***************************************************************************)

Called(t) == call[t].kind # "none"
Happened(t, what) == \E i \in 1..Len(ev[t]) : ev[t][i] = what
Times(t, what) == Cardinality({i \in 1..Len(ev[t]) : ev[t][i] = what})
Before(t, a, b) == \E i, j \in 1..Len(ev[t]) : i < j /\ ev[t][i] = a /\ ev[t][j] = b

\* C8: every call of the executor ends with a returned envelope, whichever
\* step failed; a returned envelope with exito false has no result sets and
\* an error text, one with exito true has no error.
C8_EnvelopeContract ==
    \A t \in Tasks :
        /\ (Called(t) /\ pc[t] = "done") => ret[t].returned
        /\ ret[t].returned =>
              /\ ~ret[t].exito => (ret[t].resultados = <<>> /\ ret[t].error # None)
              /\ ret[t].exito => ret[t].error = None

\* a call that failed after the cursor had been opened and came back with a
\* failure envelope
C8_Witness ==
    \E t \in Tasks :
        /\ Called(t) /\ pc[t] = "done" /\ ret[t].returned
        /\ ~ret[t].exito /\ Happened(t, "cursor") /\ Happened(t, "close_cursor")
        /\ ret[t].resultados = <<>> /\ ret[t].error # None

\* the pooled connections the calls in progress hold
HeldByCalls == {ex[t].connection : t \in {u \in Tasks : ex[u].own_conn /\ ex[u].connection # NoConn}}

\* C9: a connection the executor checked out itself goes back to its pool
\* exactly once before the call returns, on every path, after the attempt to
\* close the cursor; a connection of the caller's is neither released nor
\* closed.
C9_ReleaseOwnConnectionOnce ==
    /\ checkedOut = HeldByCalls
    /\ \A t \in Tasks :
          (Called(t) /\ pc[t] = "done") =>
              /\ Times(t, "release") = Times(t, "acquire")
              /\ Times(t, "acquire") <= 1
              /\ Happened(t, "cursor") => Before(t, "close_cursor", "release") \/ ~Happened(t, "release")
              /\ Happened(t, "cursor") <=> Happened(t, "close_cursor")
              /\ ~Happened(t, "close_connection")
              /\ call[t].connection # NoConn => ~Happened(t, "acquire") /\ ~Happened(t, "release")

\* a failed call on a connection of its own has returned: cursor closed, then
\* the connection released
C9_Witness ==
    \E t \in Tasks :
        /\ Called(t) /\ pc[t] = "done" /\ ~ret[t].exito
        /\ call[t].connection = NoConn
        /\ Happened(t, "acquire") /\ Before(t, "close_cursor", "release")
        /\ checkedOut = {}

\* C10: a call with declared output names returns a parametros_out mapping
\* whose keys are exactly those names, whatever the outcome of the call.
C10_OutKeysAlwaysPresent ==
    \A t \in Tasks :
        (ret[t].returned /\ Len(call[t].parametros_out) > 0) =>
            DOMAIN ret[t].parametros_out =
                {call[t].parametros_out[i] : i \in 1..Len(call[t].parametros_out)}

(***************************************************************************)
(* Payment verification                                                    *)
(***************************************************************************)
BancoDe(c) == VerificacionBanco(c.payload, c.http)
RefLocal(c) == IF c.fila # None THEN DictGet(c.fila, "Referencia", None) ELSE None

\* C11: verificar_pago answers the final code "00" only when the local record
\* exists and either no live verification was requested or the bank answered
\* "00" with the reference that is persisted locally; a missing local record
\* gives "04", and every other case a code other than "00".
C11_FinalCode ==
    (svc.op = "verificar_pago" /\ svc.stage = "returned") =>
        /\ (svc.out.code = PyStr("00")) <=>
               /\ svc.fila # None
               /\ \/ ~hacer_verificacion(svc.payload)
                  \/ /\ BancoDe(svc).code = PyStr("00")
                     /\ RefLocal(svc) # None
                     /\ BancoDe(svc).reference = RefLocal(svc)
        /\ (svc.fila = None) => svc.out.code = PyStr("04")

(***************************************************************************)
(* Dispersal                                                               *)
(***************************************************************************)
Declarado(datos) == float(DictGet(datos, "monto", PyStr("0")))
Partes(datos) ==
    LET personas == IF "personas" \in DOMAIN datos THEN datos.personas ELSE <<>>
    IN  [i \in 1..Len(personas) |-> float(DictGet(personas[i], "montoPart", PyStr("0")))]
Parsed(datos) ==
    /\ Declarado(datos).ok /\ ~Declarado(datos).nan
    /\ \A i \in 1..Len(Partes(datos)) : Partes(datos)[i].ok /\ ~Partes(datos)[i].nan

\* C12: procesar_gestion_pagos answers success=true exactly when every amount
\* parses and the sum of montoPart differs from monto by less than 0.01, and
\* success=false with a rejection message otherwise; it calls no stored
\* procedure and persists nothing.
C12_DispersalReconciliation ==
    svc.op = "procesar_gestion_pagos" =>
        /\ svc.out.success <=>
               /\ Parsed(svc.datos)
               /\ Abs(Declarado(svc.datos).milli - SumMilli(Partes(svc.datos))) < 10
        /\ ~svc.out.success => svc.out.message # "Dispersion exitosa"
        /\ notifs = {}
        /\ \A t \in Tasks : pc[t] = "idle" /\ ev[t] = <<>>

(***************************************************************************)
(* Outbound bank operations                                                *)
(***************************************************************************)
\* the bank did not answer 200 with code "00"
UpstreamFailure(http) ==
    \/ http.kind \in {"raise", "nojson"}
    \/ http.status # 200
    \/ DictGet(http.data, "code", None) # PyStr("00")

\* C13: procesar_consulta_bcv and procesar_vuelto return a response of their
\* declared shape on every path; when the bank call times out, fails, answers
\* a status other than 200 or an error code, the response carries a code other
\* than "00" (the rate query also tipocambio 0.0), it is never None, and the
\* endpoint mbcv does not answer 500.
C13_DegradedResponse ==
    /\ svc.op = "procesar_consulta_bcv" =>
           /\ svc.out # None
           /\ DOMAIN svc.out = {"code", "fechavalor", "tipocambio"}
           /\ UpstreamFailure(svc.http) =>
                  /\ svc.out.code # PyStr("00")
                  /\ svc.out.tipocambio = PyFloat(0)
                  /\ svc.status # 500
    /\ svc.op = "procesar_vuelto" =>
           /\ svc.out # None
           /\ DOMAIN svc.out = {"code", "message", "reference"}
           /\ UpstreamFailure(svc.http) => svc.out.code # PyStr("00")

(***************************************************************************)
(* Registry of bank handlers                                               *)
(***************************************************************************)
\* the spellings of a seeded entry: its code or alias in any letter case and
\* with surrounding whitespace, and its code without the leading zeros
Nombra(key, e) ==
    \/ lower(strip(key)) \in {e[1], lower(e[2])}
    \/ isdigit(key) /\ zfill(key, 4) = e[1]

\* C14: with the seeded table, every spelling of an entry (code, alias in any
\* letter case, either with surrounding whitespace, digit-only code with the
\* leading zeros dropped) selects the handler class of that entry.
C14_SpellingsResolveAlike ==
    (lookup.asked /\ lookup.tras = 0) =>
        \A e \in TablaInicial : Nombra(lookup.key, e) => lookup.cls = e[3]

\* "134" selects the handler class of 0134
C14_Witness ==
    /\ lookup.asked /\ lookup.tras = 0
    /\ lookup.key = <<"1", "3", "4">>
    /\ lookup.cls = "BancoBanescoService"

\* C15: get_service_for_bank never raises: a seeded code or alias yields an
\* instance of its registered handler class, every unregistered identifier an
\* instance of BankR4Adapter.
C15_NeverRaises ==
    lookup.asked =>
        /\ ~lookup.raised
        /\ (\A e \in TablaInicial : ~Nombra(lookup.key, e)) /\ lookup.tras = 0
              => lookup.cls = "BankR4Adapter"

\* C16: after any sequence of register_bank calls, an entry resolves by its
\* code and by its current alias to the handler class of the latest
\* registration for that code.
C16_RegisterKeepsCodeAndAlias ==
    \A code \in DOMAIN BANK_CONFIG :
        /\ SeleccionarClase(code, BANK_CONFIG, ALIAS_INDEX) = BANK_CONFIG[code].service_cls
        /\ SeleccionarClase(BANK_CONFIG[code].alias, BANK_CONFIG, ALIAS_INDEX) = BANK_CONFIG[code].service_cls

\* C17: every handler class reachable through the registry exposes every
\* operation of the handler contract, so a resolved handler has the method a
\* multi-bank route calls.
C17_ContractComplete ==
    /\ \A code \in DOMAIN BANK_CONFIG : OperacionesContrato \subseteq Metodos(BANK_CONFIG[code].service_cls)
    /\ lookup.asked => ~lookup.raised /\ OperacionesContrato \subseteq Metodos(lookup.cls)

(***************************************************************************)
(* Client-intent query                                                     *)
(***************************************************************************)
\* C18: the client-intent query of the default adapter answers status=true
\* for every request payload, whether or not the staging of the payment
\* intent succeeded.
C18_AcceptAll ==
    svc.op \in {"consulta_cliente", "procesar_consulta_cliente"} => svc.out.status = TRUE


(***************************************************************************)
(* C19: HMAC verification                                                  *)
(***************************************************************************)
\* the verdict of the policy check of an operation on a token and a body
Verdict(op, token, payload) ==
    validar_hmac_generico(op, token, payload, get_r4_config(req.env))

\* the bodies that give every policy field of the operation a value
FullPayloads(op) == [FieldsOf(op) -> FieldValues \ {None}]

\* for every operation with an HMAC policy and every body with all its
\* fields: the digest of the fields joined in declared order is accepted, any
\* other token is refused, and the same digest is refused for a body in which
\* one field value has been altered
AllPoliciesVerify ==
    \A op \in {e \in DOMAIN HMAC_CONFIG : HmacGuarded(e)} :
        \A payload \in FullPayloads(op) :
            LET signature == ExpectedSignature(op, payload)
                cfg == get_r4_config([BANCO_IPS_PERMITIDAS |-> "", DEBUG |-> ""])
            IN  /\ validar_hmac_generico(op, signature, payload, cfg).status = 200
                /\ \A token \in Tokens \ {None, PyStr(""), signature} :
                       validar_hmac_generico(op, token, payload, cfg).status = 401
                /\ \A field \in FieldsOf(op) : \A value \in FieldValues \ {payload[field]} :
                       validar_hmac_generico(op, signature, [payload EXCEPT ![field] = value], cfg).status
                           \in {400, 401}

\* verificar_hmac_r4 returns for every input, the signature that makes
\* compare_digest raise included, and it returns True only for the digest
VerificarNeverRaises ==
    \A data_string \in {"", "a", "aab"} : \A token \in Tokens \ {None} :
        \A secret_key \in {R4_MERCHANT_ID, "otra_clave"} :
            LET verified == verificar_hmac_r4(data_string, token.s, secret_key)
            IN  /\ ~verified.raised
                /\ verified.value <=> token.s = calcular_hmac_r4(data_string, secret_key)

\* C19: for every operation with an HMAC policy, verification succeeds when
\* the token is the HMAC digest, under the configured secret, of the policy
\* fields joined in declared order, and fails when the signature or one field
\* value is altered; verificar_hmac_r4 answers False instead of raising.
C19_HmacVerification ==
    /\ AllPoliciesVerify
    /\ VerificarNeverRaises
    /\ (/\ Validated /\ HmacGuarded(req.op)
         /\ ~NotAuthorization(req.authorization) /\ req.payload # NoPayload
         /\ AbsentFields(req.op, req.payload) = {}) =>
            /\ rdetail.status = 200 <=> req.authorization = ExpectedSignature(req.op, req.payload)
            /\ rdetail.status # 200 =>
                   rdetail.status = 401 /\ rdetail.detail = "Firma HMAC invalida"
            /\ rdetail.status = 200 =>
                   /\ \A token \in Tokens \ {req.authorization} :
                          Verdict(req.op, token, req.payload).status = 401
                   /\ \A field \in FieldsOf(req.op) : \A value \in FieldValues \ {req.payload[field]} :
                          Verdict(req.op, req.authorization, [req.payload EXCEPT ![field] = value]).status
                              \in {400, 401}

\* the rate operation, signed with the digest of its two fields in declared
\* order, has been accepted
C19_Witness ==
    /\ Validated /\ req.op = "MBbcv"
    /\ req.payload # NoPayload /\ DOMAIN req.payload = {"Fechavalor", "Moneda"}
    /\ req.payload["Fechavalor"] = PyStr("a") /\ req.payload["Moneda"] = PyStr("ab")
    /\ req.authorization = PyStr(calcular_hmac_r4("aab", R4_MERCHANT_ID))
    /\ rdetail.status = 200 /\ rdetail.hmac_computed

\* a token that is not ASCII on an HMAC-guarded operation: refused as an
\* invalid signature, the comparison's TypeError staying inside verificar_hmac_r4
C19_WitnessNoAscii ==
    /\ Validated /\ HmacGuarded(req.op)
    /\ req.authorization = PyStr(FirmaNoAscii)
    /\ rdetail.status = 401 /\ rdetail.detail = "Firma HMAC invalida"


(***************************************************************************)
(* C20: the shared secret and the log                                      *)
(***************************************************************************)
\* a value interpolated into a line of the log is the secret
ContainsSecret(log, secret) ==
    \E i \in 1..Len(log) : \E j \in 1..Len(log[i].args) :
        ~log[i].args[j].digest /\ log[i].args[j].text = secret

\* the log with its signature digests masked
Masked(log) ==
    [i \in 1..Len(log) |->
        [log[i] EXCEPT !.args = [j \in 1..Len(log[i].args) |->
                                    IF log[i].args[j].digest THEN Firma("") ELSE log[i].args[j]]]]

\* no line of the log of the inbound policy check carries the secret
InboundLogFreeOfSecret ==
    \A op \in {"MBbcv", "VerificoPago", "R4consulta", "NoSuchOp"} :
        \A token \in Tokens : \A payload \in Payloads(op) : \A secret \in MerchantIds :
            ~ContainsSecret(LogValidarHmac(op, token, payload, R4ConfigOf(secret)), secret)

\* the log of the outbound call in hand, had the secret of the run been another
LogWith(secret) ==
    IF svc.op = "procesar_consulta_bcv"
      THEN LogConsultaBcv(svc.moneda, svc.fecha_valor, svc.http, secret)
      ELSE LogVuelto(svc.payload, svc.http, secret)

\* C20: no log line of inbound authentication or of outbound request signing
\* contains the shared HMAC secret; the logs of two runs that differ only in
\* the secret are the same once the signature digests are masked.
C20_SecretNeverLogged ==
    /\ InboundLogFreeOfSecret
    /\ svc.op \in {"procesar_consulta_bcv", "procesar_vuelto"} =>
           /\ ~ContainsSecret(svc.log, svc.merchant_id)
           /\ \A secret \in MerchantIds : Masked(LogWith(secret)) = Masked(svc.log)


(***************************************************************************)
(* C21: the drain of the result sets                                       *)
(***************************************************************************)
\* the rows of the emitted sets that have columns, in emission order
Tabular(sets) ==
    LET withColumns == SelectSeq(sets, LAMBDA s : s.desc)
    IN  [i \in 1..Len(withColumns) |-> withColumns[i].rows]

\* C21: ejecutar_sp_generico has passed every result set of the procedure
\* when it issues the SELECT of the OUT parameters on the same cursor;
\* resultados holds, in emission order, exactly the sets with column
\* metadata, and is the empty list when the procedure emitted no SELECT.
C21_DrainBeforeOutSelect ==
    \A t \in Tasks :
        /\ pc[t] = "out" =>
              /\ ex[t].sets = <<>>
              /\ ex[t].resultados = Tabular(ex[t].emitted)
        /\ Happened(t, "out_select") => Before(t, "drain", "out_select")
        /\ (ret[t].returned /\ ret[t].exito) =>
              /\ ret[t].resultados = Tabular(ex[t].emitted)
              /\ (\A i \in 1..Len(ex[t].emitted) : ~ex[t].emitted[i].desc) => ret[t].resultados = <<>>

\* a call with OUT names whose procedure emitted a set with rows, a plain
\* status and a SELECT without rows has returned both tabular sets
C21_Witness ==
    \E t \in Tasks :
        /\ ret[t].returned /\ ret[t].exito
        /\ Len(call[t].parametros_out) > 0
        /\ ex[t].emitted = <<RowSet, StatusOnly, EmptySet>>
        /\ ret[t].resultados = <<RowSet.rows, EmptySet.rows>>
        /\ Before(t, "drain", "out_select")


(***************************************************************************)
(* C22: OUT parameters and the session of the connection                   *)
(***************************************************************************)
\* the OUT values a call has returned, in the order of the declared names
ReturnedOut(t) ==
    [i \in 1..Len(call[t].parametros_out) |-> ret[t].parametros_out[call[t].parametros_out[i]]]

\* C22: the value a call returns under its i-th output name is the value its
\* own invocation assigned to the session variable after the inputs, whatever
\* the interleaving of the concurrent calls, each on its own pooled connection.
C22_OutValuesOfOwnCall ==
    \A t \in Tasks :
        /\ pc[t] = "out" =>
              OutRow(call[t], sess[ex[t].connection][call[t].sp]) = ex[t].assigned
        /\ (ret[t].exito /\ Len(call[t].parametros_out) > 0 /\ pc[t] \in {"finally", "done"}) =>
              ReturnedOut(t) = ex[t].assigned
        /\ \A u \in Tasks \ {t} :
              (ex[t].connection # NoConn /\ ex[u].connection # NoConn) =>
                  ex[t].connection # ex[u].connection

\* two calls between CALL and OUT SELECT at the same time, on different
\* connections, whose procedures assigned different codes
C22_Witness ==
    /\ pc[1] = "out" /\ pc[2] = "out"
    /\ ex[1].connection # ex[2].connection
    /\ ex[1].assigned[2] = PyInt(1) /\ ex[2].assigned[2] = PyInt(0)


(***************************************************************************)
(* C23, C24: the pool outside the executor                                 *)
(***************************************************************************)
\* the connections that calls in progress hold
HeldByDirect == {ex[t].connection : t \in Tasks} \ {NoConn}

\* C23: every checkout of the health probe and of the direct-query fallback
\* is matched by a release on every exit path, a failing cursor() or query
\* included: when a call has ended, the connections checked out are those
\* that calls in progress hold, and each task released as often as it
\* acquired.
C23_ReleaseOnEveryPath ==
    /\ checkedOut = HeldByDirect
    /\ \A t \in Tasks : pc[t] = "idle" => Times(t, "release") = Times(t, "acquire")


\* C24: at most one connection pool is ever created; concurrent callers of
\* get_connection_pool that find no pool all obtain the same pool, and none
\* creates a second one that replaces the first.
C24_SinglePool ==
    /\ poolsCreated <= 1
    /\ \A t \in Tasks : ex[t].pool \in {0, connection_pool}


(***************************************************************************)
(* C25: immediate operations and their persistence step                    *)
(***************************************************************************)
\* the persistence step of the operation in hand succeeded
Persisted == ~svc.guardado.raised /\ svc.guardado.value.success

CodigoRedDe(t) == call[t].parametros_in[9]

C27_TokenOnlySatisfiable ==
    /\ "uuid" \in DOMAIN get_r4_config(req.env)
    /\ \A op \in {"R4notifica", "R4consulta"} :
          \E token \in Tokens : \E payload \in Payloads(op) :
              validar_hmac_generico(op, token, payload, get_r4_config(req.env)).status = 200


(***************************************************************************)
(* C28: outbound signing against the inbound policy                        *)
(***************************************************************************)
\* the HMAC_CONFIG entry of an outbound operation
PolicyOf(op) ==
    CASE op = "procesar_consulta_bcv" -> "MBbcv"
      [] op = "procesar_vuelto" -> "MBvuelto"
      [] OTHER -> "GenerarOtp"

\* C28: for the rate query, the refund and the OTP request, the body sent and
\* its Authorization pass the inbound policy of the same operation under the
\* same secret, for every input, lower-case currency codes included.
C28_OutboundRoundTrip ==
    (svc.op \in {"procesar_consulta_bcv", "procesar_vuelto", "procesar_otp"} /\ svc.sent.built) =>
        validar_hmac_generico(PolicyOf(svc.op), svc.sent.authorization, svc.sent.body,
                              R4ConfigOf(svc.merchant_id)).status = 200


(***************************************************************************)
(* C29: what the HMAC verdict depends on                                   *)
(***************************************************************************)
RichValues == {PyStr("a"), PyStr("ab"), PyStr("aa"), PyStr("b"), PyInt(1)}

\* bodies with every policy field of the operation, with and without a field
\* outside the policy
RichPayloads(op) ==
    [FieldsOf(op) -> RichValues] \cup [FieldsOf(op) \cup {"Extra"} -> RichValues]

RECURSIVE Concatenated(_, _, _)
\* the text of the policy fields from position i on, one after the other
Concatenated(op, payload, i) ==
    IF i > Len(HMAC_CONFIG[op].params) THEN ""
    ELSE PyStrOf(payload[HMAC_CONFIG[op].params[i]]) \o Concatenated(op, payload, i + 1)

\* C29: on an HMAC-guarded operation the verdict depends on the token and on
\* the joined text of the policy fields only: a body that differs in fields
\* outside the policy, or whose policy fields give the same text with the
\* boundary between them shifted, gets the same verdict for the same token.
C29_VerdictOfTokenAndJoinedString ==
    (/\ Validated /\ HmacGuarded(req.op)
     /\ ~NotAuthorization(req.authorization) /\ req.payload # NoPayload
     /\ AbsentFields(req.op, req.payload) = {}) =>
        \A other \in RichPayloads(req.op) :
            Concatenated(req.op, other, 1) = Concatenated(req.op, req.payload, 1) =>
                /\ Verdict(req.op, req.authorization, other).status = rdetail.status
                /\ Verdict(req.op, req.authorization, other).detail = rdetail.detail

\* the rate query signed for the fields a and ab is accepted, and so is the
\* body aa and b with a field outside the policy, under the same token
C29_Witness ==
    /\ Validated /\ req.op = "MBbcv" /\ rdetail.status = 200
    /\ req.payload # NoPayload /\ DOMAIN req.payload = {"Fechavalor", "Moneda"}
    /\ req.payload["Fechavalor"] = PyStr("a") /\ req.payload["Moneda"] = PyStr("ab")
    /\ Verdict("MBbcv", req.authorization,
               [Fechavalor |-> PyStr("aa"), Moneda |-> PyStr("b"), Extra |-> PyInt(1)]).status = 200


(***************************************************************************)
(* C30: 127.0.0.1 in the allow-list                                        *)
(***************************************************************************)
\* debug mode as the setting means it: DEBUG set to a true value
DebugEnabled(env) == env.DEBUG = "True"

IpChecked == InLog("ip_ok") \/ InLog("ip_rejected")

\* C30: 127.0.0.1 is in the bank allow-list only when debug mode is enabled;
\* with DEBUG at its default "False" and the address not configured, a request
\* whose resolved client address is 127.0.0.1 is rejected by the allow-list check.
C30_LocalhostOnlyInDebug ==
    /\ (IpChecked /\ ClientIp(req) = IP_LOCAL
            /\ InSeq(IP_LOCAL, get_r4_config(req.env).allowed_ips)
            /\ ~InSeq(IP_LOCAL, SplitComma(req.env.BANCO_IPS_PERMITIDAS)))
        => DebugEnabled(req.env)
    /\ (IpChecked /\ req.env.DEBUG = "False" /\ ClientIp(req) = IP_LOCAL
            /\ ~InSeq(IP_LOCAL, SplitComma(req.env.BANCO_IPS_PERMITIDAS)))
        => (InLog("ip_rejected") /\ rstatus = 401)

====
